---- MODULE Spec2Model ----
(***************************************************************************)
(* A model of the sqlitREST gateway: the PostgREST query parser, the SQL   *)
(* builder, the JWT manager, the policy engine, the database manager, the  *)
(* RPC dispatcher and the table handlers of the router.                    *)
(*                                                                         *)
(* Go strings are modelled as sequences of tokens.  A token is a TLA+      *)
(* string standing for a run of characters that the code never looks       *)
(* inside ("users", "eq", "WHERE", "?"); every character the code does     *)
(* look at (".", ",", "(", ")", the quote, the backtick, a blank) is a     *)
(* token of its own, so that Split, Join, Trim, HasPrefix, Contains and    *)
(* ReplaceAll are computed as the Go library computes them.  In SQL text   *)
(* the single blanks that fmt.Sprintf puts between clauses are implicit    *)
(* between two tokens.                                                     *)
(***************************************************************************)
EXTENDS Integers, Sequences, FiniteSets, TLC

VARIABLES
    databases,   \* db.Manager.databases: name -> handle (its address in heap
                 \* where goroutines share it)
    policyRows,  \* the rows of the _policies table, in rowid order
    policies,    \* policies.PolicyEngine.policies: table -> sequence of Policy
    functions,   \* rpc.RPCHandler.functions: the names HandleRPC dispatches
    content,     \* the rows (by id) of every table of the main database
    last,        \* the request being answered and its outcome, or Idle
    heap,        \* the objects that pointers share, by address: the db.Database
                 \* of a handle, the engine.SchemaInfo of a cache entry
    goroutines,  \* the handler goroutines that run concurrently, by number
    journal,     \* the writes on the writer: the calls of Exec, then the commits
    catalog,     \* the tables of the main database and their columns
    cache,       \* engine.SchemaCache.cache: table -> *SchemaInfo
    mutex,       \* engine.SchemaCache.mutex: who holds the RWMutex
    clock,       \* the monotonic clock that time.Now and time.Since read
    calls        \* the calls of the schema cache that run concurrently, by number

\* the state of the database manager under concurrent requests
managerVars == <<heap, goroutines, journal>>
\* the state of the schema cache
cacheVars == <<catalog, cache, mutex, clock, calls>>

vars == <<databases, policyRows, policies, functions, content, last, managerVars, cacheVars>>

(***************************************************************************)
(* Bounds of the model.                                                    *)
(***************************************************************************)
\* the largest number of query-string parameters of a compiled request
MaxParams == 2
\* the largest number of query-string parameters of a served request
MaxServedParams == 1
\* the largest row id a table holds
MaxId == 2

(***************************************************************************)
(* strings                                                                 *)
(***************************************************************************)
\* the value v under the name that the body F gives it: a local variable of
\* the code, assigned once and read many times
With(v, F(_)) == F(v)

\* the backtick character (written ^: a backtick cannot stand in a string here)
BT == "^"
\* the single quote character
SQ == "'"

Contains(s, tok) == \E i \in DOMAIN s : s[i] = tok

\* strings.Index for a one-token needle: the first position, 0 when absent
Index(s, tok) ==
    IF Contains(s, tok) THEN CHOOSE i \in DOMAIN s :
                                 s[i] = tok /\ \A j \in 1..(i - 1) : s[j] # tok
    ELSE 0

\* the first position of a token of the set toks, 0 when absent
IndexAny(s, toks) ==
    IF \E i \in DOMAIN s : s[i] \in toks
    THEN CHOOSE i \in DOMAIN s : s[i] \in toks /\ \A j \in 1..(i - 1) : s[j] \notin toks
    ELSE 0

HasPrefix(s, p) == Len(s) >= Len(p) /\ SubSeq(s, 1, Len(p)) = p

HasSuffix(s, p) == Len(s) >= Len(p) /\ SubSeq(s, Len(s) - Len(p) + 1, Len(s)) = p

RECURSIVE Split(_, _)
Split(s, sep) ==
    With(Index(s, sep), LAMBDA i :
        IF i = 0 THEN <<s>>
        ELSE <<SubSeq(s, 1, i - 1)>> \o Split(SubSeq(s, i + 1, Len(s)), sep))

RECURSIVE Join(_, _)
Join(parts, sep) ==
    IF Len(parts) = 0 THEN <<>>
    ELSE IF Len(parts) = 1 THEN parts[1]
    ELSE parts[1] \o sep \o Join(Tail(parts), sep)

RECURSIVE TrimLeft(_, _)
TrimLeft(s, cutset) ==
    IF Len(s) > 0 /\ s[1] \in cutset THEN TrimLeft(Tail(s), cutset) ELSE s

RECURSIVE TrimRight(_, _)
TrimRight(s, cutset) ==
    IF Len(s) > 0 /\ s[Len(s)] \in cutset
    THEN TrimRight(SubSeq(s, 1, Len(s) - 1), cutset) ELSE s

Trim(s, cutset) == TrimRight(TrimLeft(s, cutset), cutset)

TrimSpace(s) == Trim(s, {" "})

RECURSIVE ReplaceAll(_, _, _)
ReplaceAll(s, tok, repl) ==
    IF Len(s) = 0 THEN <<>>
    ELSE (IF s[1] = tok THEN repl ELSE <<s[1]>>) \o ReplaceAll(Tail(s), tok, repl)

\* strings.ToUpper and strings.ToLower on the tokens that have letters of
\* both cases in the model
UpperOf == [null |-> "NULL", Null |-> "NULL"]

LowerOf == [NULL |-> "null", Null |-> "null"]

ToUpper(s) == [i \in DOMAIN s |-> IF s[i] \in DOMAIN UpperOf THEN UpperOf[s[i]] ELSE s[i]]

ToLower(s) == [i \in DOMAIN s |-> IF s[i] \in DOMAIN LowerOf THEN LowerOf[s[i]] ELSE s[i]]

\* the decimal numerals of the model
Numerals == <<"0", "1", "2", "3", "4">>

\* strconv.Atoi: ok is FALSE for a string that is no numeral
Atoi(s) ==
    IF Len(s) = 1 /\ \E n \in DOMAIN Numerals : Numerals[n] = s[1]
    THEN [ok |-> TRUE, n |-> (CHOOSE n \in DOMAIN Numerals : Numerals[n] = s[1]) - 1]
    ELSE [ok |-> FALSE, n |-> 0]

\* the decimal rendering of a small natural
Itoa(n) == <<Numerals[n + 1]>>

\* the sequences over all elements of a finite set, in every order
RECURSIVE Orders(_)
Orders(S) ==
    IF S = {} THEN {<<>>}
    ELSE UNION {{<<x>> \o o : o \in Orders(S \ {x})} : x \in S}

(***************************************************************************)
(* engine: the query parser                                                *)
(***************************************************************************)
OpEqual == <<"eq">>
OpNotEqual == <<"neq">>
OpGreaterThan == <<"gt">>
OpGreaterEqual == <<"gte">>
OpLessThan == <<"lt">>
OpLessEqual == <<"lte">>
OpLike == <<"like">>
OpILike == <<"ilike">>
OpIn == <<"in">>
OpIs == <<"is">>
OpNot == <<"not">>

\* the validOperators map of parseFilter and of parsePostgRESTFilter
validOperators ==
    {OpEqual, OpNotEqual, OpGreaterThan, OpGreaterEqual, OpLessThan, OpLessEqual,
     OpLike, OpILike, OpIn, OpIs}

\* a nil *int and a pointer to n
NilInt == [set |-> FALSE, n |-> 0]
IntPtr(n) == [set |-> TRUE, n |-> n]

\* the zero Filter, returned beside an error
NoFilter == [Column |-> <<>>, Operator |-> <<>>, Value |-> <<>>]

extractTableFromPath(path) ==
    With(Split(Trim(path, {"/"}), "/"), LAMBDA parts :
        IF Len(parts) >= 2 THEN parts[Len(parts)] ELSE parts[1])

isReserved(key) == key \in {<<"limit">>, <<"offset">>, <<"and">>, <<"or">>}

isFilterOperator(key) ==
    /\ Contains(key, ".")
    /\ ~HasPrefix(key, <<"order", ".">>)
    /\ ~HasPrefix(key, <<"select", ".">>)
    /\ ~isReserved(key)

isPostgRESTFilter(key) ==
    /\ ~Contains(key, ".")
    /\ key \notin {<<"select">>, <<"order">>}
    /\ ~isReserved(key)

parseFilter(key, value) ==
    With(Split(key, "."), LAMBDA parts :
        IF Len(parts) < 2 THEN [err |-> TRUE, filter |-> NoFilter]
        ELSE IF parts[2] \notin validOperators THEN [err |-> TRUE, filter |-> NoFilter]
        ELSE [err |-> FALSE,
              filter |-> [Column |-> parts[1], Operator |-> parts[2], Value |-> value]])

parsePostgRESTFilter(key, value) ==
    With(Split(value, "."), LAMBDA parts :
        IF Len(parts) < 2 THEN [err |-> TRUE, filter |-> NoFilter]
        ELSE IF parts[1] \notin validOperators THEN [err |-> TRUE, filter |-> NoFilter]
        ELSE [err |-> FALSE,
              filter |-> [Column |-> key, Operator |-> parts[1],
                          Value |-> Join(Tail(parts), <<".">>)]])

parseSelect(value) ==
    IF value = <<"*">> THEN <<(<<"*">>)>>
    ELSE With(Split(value, ","), LAMBDA columns :
             [i \in DOMAIN columns |-> TrimSpace(columns[i])])

\* the direction and the nulls rule that parts 2.. of an order clause leave
RECURSIVE orderModifiers(_, _)
orderModifiers(parts, clause) ==
    IF Len(parts) = 0 THEN clause
    ELSE orderModifiers(Tail(parts),
            IF parts[1] \in {<<"asc">>, <<"desc">>}
            THEN [clause EXCEPT !.Direction = parts[1]]
            ELSE IF parts[1] = <<"nullsfirst">> THEN [clause EXCEPT !.Nulls = <<"first">>]
            ELSE IF parts[1] = <<"nullslast">> THEN [clause EXCEPT !.Nulls = <<"last">>]
            ELSE clause)

parseOrder(value) ==
    With(Split(value, ","), LAMBDA clauses :
        [i \in DOMAIN clauses |->
            With(Split(TrimSpace(clauses[i]), "."), LAMBDA parts :
                orderModifiers(Tail(parts),
                    [Column |-> parts[1], Direction |-> <<"asc">>, Nulls |-> <<>>]))])

\* the filters of the parts of a logical group, up to the first bad operator
RECURSIVE logicalFilters(_, _)
logicalFilters(parts, filters) ==
    IF Len(parts) = 0 THEN [err |-> FALSE, filters |-> filters]
    ELSE With(TrimSpace(parts[1]), LAMBDA part :
         IF ~Contains(part, ".") THEN logicalFilters(Tail(parts), filters)
         ELSE With(parseFilter(part, <<>>), LAMBDA r :
              With(Split(part, "."), LAMBDA filterParts :
              IF r.err THEN [err |-> TRUE, filters |-> <<>>]
              ELSE logicalFilters(Tail(parts),
                      Append(filters,
                          IF Len(filterParts) >= 3
                          THEN [Column |-> filterParts[1],
                                Operator |-> filterParts[2],
                                Value |-> Join(SubSeq(filterParts, 3, Len(filterParts)),
                                               <<".">>)]
                          ELSE r.filter)))))

NoCondition == [Type |-> <<>>, Filters |-> <<>>, Conditions |-> <<>>, Negated |-> FALSE]

parseLogicalCondition(value) ==
    IF ~HasPrefix(value, <<"(">>) \/ ~HasSuffix(value, <<")">>)
    THEN [err |-> TRUE, condition |-> NoCondition]
    ELSE With(logicalFilters(Split(Trim(value, {"(", ")"}), ","), <<>>), LAMBDA r :
             IF r.err THEN [err |-> TRUE, condition |-> NoCondition]
             ELSE [err |-> FALSE,
                   condition |-> [NoCondition EXCEPT !.Filters = r.filters]])

\* the QueryParameters that ParseQuery starts from
NewParams(table) ==
    [Table |-> table, Filters |-> <<>>, Select |-> <<>>, Order |-> <<>>,
     Limit |-> NilInt, Offset |-> NilInt, Conditions |-> <<>>]

\* the loop of ParseQuery over the query parameters, in the order kvs in which
\* the range over the url.Values map yields them
\* one turn of the loop of ParseQuery: the parameters after the pair (key,
\* value), or the error that ends the loop
parseParam(key, value, params) ==
    IF isFilterOperator(key)
    THEN With(parseFilter(key, value), LAMBDA r :
             [err |-> r.err, params |-> [params EXCEPT !.Filters = Append(@, r.filter)]])
    ELSE IF isPostgRESTFilter(key)
    THEN With(parsePostgRESTFilter(key, value), LAMBDA r :
             [err |-> r.err, params |-> [params EXCEPT !.Filters = Append(@, r.filter)]])
    ELSE IF key = <<"select">>
    THEN [err |-> FALSE, params |-> [params EXCEPT !.Select = parseSelect(value)]]
    ELSE IF key = <<"order">>
    THEN [err |-> FALSE, params |-> [params EXCEPT !.Order = parseOrder(value)]]
    ELSE IF key = <<"limit">>
    THEN With(Atoi(value), LAMBDA a :
             [err |-> ~a.ok, params |-> [params EXCEPT !.Limit = IntPtr(a.n)]])
    ELSE IF key = <<"offset">>
    THEN With(Atoi(value), LAMBDA a :
             [err |-> ~a.ok, params |-> [params EXCEPT !.Offset = IntPtr(a.n)]])
    ELSE IF key \in {<<"or">>, <<"and">>}
    THEN With(parseLogicalCondition(value), LAMBDA r :
             [err |-> r.err,
              params |-> [params EXCEPT !.Conditions =
                             Append(@, [r.condition EXCEPT !.Type = key])]])
    ELSE [err |-> FALSE, params |-> params]

\* the loop of ParseQuery over the query parameters, in the order kvs in which
\* the range over the url.Values map yields them; an error leaves the
\* parameters parsed so far
RECURSIVE parseParams(_, _)
parseParams(kvs, params) ==
    IF Len(kvs) = 0 THEN [err |-> FALSE, params |-> params]
    ELSE With(parseParam(kvs[1].key, kvs[1].value, params), LAMBDA r :
             IF r.err THEN [err |-> TRUE, params |-> params]
             ELSE parseParams(Tail(kvs), r.params))

ParseQuery(path, kvs) ==
    With(extractTableFromPath(path), LAMBDA table :
        IF table = <<>> THEN [err |-> TRUE, params |-> NewParams(table)]
        ELSE parseParams(kvs, NewParams(table)))

(***************************************************************************)
(* engine: the SQL builder.  A built statement is its text and its         *)
(* positional parameter vector; a parameter is the string (or the decimal  *)
(* rendering of the int) that database/sql binds.                          *)
(***************************************************************************)
quoteIdentifier(name) == <<BT>> \o ReplaceAll(name, BT, <<BT, BT>>) \o <<BT>>

\* n placeholders separated by commas
RECURSIVE placeholderList(_)
placeholderList(n) ==
    IF n = 0 THEN <<>>
    ELSE IF n = 1 THEN <<"?">>
    ELSE <<"?", ",">> \o placeholderList(n - 1)

\* a builder that writes the value of a filter into the statement text
buildFilterConditionInline(filter) ==
    [sql |-> quoteIdentifier(filter.Column) \o <<"=">> \o <<SQ>> \o filter.Value \o <<SQ>>,
     args |-> <<>>]

buildFilterCondition(filter) ==
    With(quoteIdentifier(filter.Column), LAMBDA column :
    With(filter.Operator, LAMBDA operator :
    With(filter.Value, LAMBDA value :
    With([sqlOp \in {"=", "!=", ">", ">=", "<", "<=", "LIKE", "ILIKE", "IS"} |->
             [sql |-> column \o <<sqlOp, "?">>, args |-> <<value>>]], LAMBDA bound :
        CASE operator = OpEqual -> bound["="]
          [] operator = OpNotEqual -> bound["!="]
          [] operator = OpGreaterThan -> bound[">"]
          [] operator = OpGreaterEqual -> bound[">="]
          [] operator = OpLessThan -> bound["<"]
          [] operator = OpLessEqual -> bound["<="]
          [] operator = OpLike -> bound["LIKE"]
          [] operator = OpILike -> bound["ILIKE"]
          [] operator = OpIn ->
                With(Split(value, ","), LAMBDA values :
                    [sql |-> column \o <<"IN", "(">> \o placeholderList(Len(values))
                                    \o <<")">>,
                     args |-> [i \in DOMAIN values |-> TrimSpace(values[i])]])
          [] operator = OpIs ->
                IF ToLower(value) = <<"null">>
                THEN [sql |-> column \o <<"IS", "NULL">>, args |-> <<>>]
                ELSE bound["IS"]
          [] operator = OpNot ->
                IF ToLower(value) = <<"null">>
                THEN [sql |-> column \o <<"IS", "NOT", "NULL">>, args |-> <<>>]
                ELSE bound["!="]
          [] OTHER -> bound["="]))))

\* the conditions of a list of filters joined by the operator, and their
\* parameters in order
RECURSIVE joinConditions(_, _)
joinConditions(filters, operator) ==
    IF Len(filters) = 0 THEN [sql |-> <<>>, args |-> <<>>]
    ELSE With(buildFilterCondition(filters[1]), LAMBDA c :
             IF Len(filters) = 1 THEN c
             ELSE With(joinConditions(Tail(filters), operator), LAMBDA r :
                      [sql |-> c.sql \o <<operator>> \o r.sql, args |-> c.args \o r.args]))

buildWhereClauseFromFilters(filters) ==
    IF Len(filters) = 0 THEN [sql |-> <<>>, args |-> <<>>]
    ELSE With(joinConditions(filters, "AND"), LAMBDA r :
             [sql |-> <<"WHERE">> \o r.sql, args |-> r.args])

buildLogicalCondition(condition) ==
    IF Len(condition.Filters) = 0 THEN [sql |-> <<>>, args |-> <<>>]
    ELSE With(joinConditions(condition.Filters,
                             IF condition.Type = <<"or">> THEN "OR" ELSE "AND"), LAMBDA r :
             IF Len(condition.Filters) = 1 THEN r
             ELSE [sql |-> <<"(">> \o r.sql \o <<")">>, args |-> r.args])

\* the non-empty logical conditions, joined by AND after the conditions so far
RECURSIVE logicalConditions(_, _)
logicalConditions(conditions, acc) ==
    IF Len(conditions) = 0 THEN acc
    ELSE With(buildLogicalCondition(conditions[1]), LAMBDA l :
             logicalConditions(Tail(conditions),
                IF l.sql = <<>> THEN acc
                ELSE [sql |-> IF acc.sql = <<>> THEN l.sql ELSE acc.sql \o <<"AND">> \o l.sql,
                      args |-> acc.args \o l.args]))

buildWhereClause(params) ==
    With(buildWhereClauseFromFilters(params.Filters), LAMBDA simple :
    With(logicalConditions(params.Conditions,
                           IF simple.sql = <<>> THEN simple
                           ELSE [sql |-> Tail(simple.sql), args |-> simple.args]), LAMBDA allc :
        IF allc.sql = <<>> THEN [sql |-> <<>>, args |-> <<>>]
        ELSE [sql |-> <<"WHERE">> \o allc.sql, args |-> allc.args]))

buildSelectClause(selectColumns) ==
    IF Len(selectColumns) = 0 THEN <<"*">>
    ELSE Join([i \in DOMAIN selectColumns |-> quoteIdentifier(selectColumns[i])], <<",">>)

buildOrderClause(orderClauses) ==
    IF Len(orderClauses) = 0 THEN <<>>
    ELSE <<"ORDER BY">> \o
         Join([i \in DOMAIN orderClauses |->
                  quoteIdentifier(orderClauses[i].Column) \o
                  (IF orderClauses[i].Direction = <<"desc">> THEN <<"DESC">> ELSE <<"ASC">>)],
              <<",">>)

buildLimitClause(limit, offset) ==
    [sql |-> (IF limit.set THEN <<"LIMIT", "?">> ELSE <<>>) \o
             (IF offset.set THEN <<"OFFSET", "?">> ELSE <<>>),
     args |-> (IF limit.set THEN <<Itoa(limit.n)>> ELSE <<>>) \o
              (IF offset.set THEN <<Itoa(offset.n)>> ELSE <<>>)]

\* a builder that appends the parameters of the window before those of WHERE
BuildSelectWindowFirst(params) ==
    With(buildWhereClause(params), LAMBDA whereClause :
    With(buildLimitClause(params.Limit, params.Offset), LAMBDA limitClause :
        [err |-> FALSE,
         sql |-> <<"SELECT">> \o buildSelectClause(params.Select)
                 \o <<"FROM">> \o quoteIdentifier(params.Table)
                 \o whereClause.sql \o buildOrderClause(params.Order) \o limitClause.sql,
         args |-> limitClause.args \o whereClause.args]))

BuildSelect(params) ==
    With(buildWhereClause(params), LAMBDA whereClause :
    With(buildLimitClause(params.Limit, params.Offset), LAMBDA limitClause :
        [err |-> FALSE,
         sql |-> <<"SELECT">> \o buildSelectClause(params.Select)
                 \o <<"FROM">> \o quoteIdentifier(params.Table)
                 \o whereClause.sql \o buildOrderClause(params.Order) \o limitClause.sql,
         args |-> whereClause.args \o limitClause.args]))

\* a statement that was not built
NotBuilt == [err |-> TRUE, sql |-> <<>>, args |-> <<>>]

\* data is the JSON body as the sequence of its (column, value) members in the
\* order in which the range over the map yields them
BuildInsert(table, data) ==
    IF Len(data) = 0 THEN NotBuilt
    ELSE [err |-> FALSE,
          sql |-> <<"INSERT", "INTO">> \o quoteIdentifier(table) \o <<"(">>
                  \o Join([i \in DOMAIN data |-> quoteIdentifier(data[i].column)], <<",">>)
                  \o <<")", "VALUES", "(">> \o placeholderList(Len(data)) \o <<")">>,
          args |-> [i \in DOMAIN data |-> data[i].value]]

BuildUpdate(table, data, filters) ==
    IF Len(data) = 0 THEN NotBuilt
    ELSE With(buildWhereClauseFromFilters(filters), LAMBDA whereClause :
             [err |-> FALSE,
              sql |-> <<"UPDATE">> \o quoteIdentifier(table) \o <<"SET">>
                      \o Join([i \in DOMAIN data |->
                                  quoteIdentifier(data[i].column) \o <<"=", "?">>], <<",">>)
                      \o whereClause.sql,
              args |-> [i \in DOMAIN data |-> data[i].value] \o whereClause.args])

BuildDelete(table, filters) ==
    With(buildWhereClauseFromFilters(filters), LAMBDA whereClause :
        [err |-> FALSE,
         sql |-> <<"DELETE", "FROM">> \o quoteIdentifier(table) \o whereClause.sql,
         args |-> whereClause.args])

(***************************************************************************)
(* engine: resource embedding                                              *)
(***************************************************************************)
\* PRAGMA foreign_key_list of a table of the main database: the foreign keys
\* by their local column.  The tables of the model declare none.
GetForeignKeys(tableName) == <<>>

\* the relation names that ParseEmbeddedRelations finds in the select list
ParseEmbeddedRelations(selectParam) ==
    IF selectParam = <<"*">> THEN <<>>
    ELSE With(Split(selectParam, ","), LAMBDA parts :
         With(SelectSeq([i \in DOMAIN parts |-> TrimSpace(parts[i])],
                        LAMBDA part : part # <<"*">>), LAMBDA named :
             [i \in DOMAIN named |->
                 IF Contains(named[i], "(") /\ Contains(named[i], ")")
                 THEN SubSeq(named[i], 1, Index(named[i], "(") - 1)
                 ELSE named[i]]))

\* the keywords before which insertWhereAfterFrom and BuildEmbeddedQuery insert
ClauseKeywords == {"WHERE", "ORDER BY", "GROUP BY", "HAVING", "LIMIT", "OFFSET"}

\* the JOIN clauses of the relations that are foreign keys of the base table
RECURSIVE joinClauses(_, _, _)
joinClauses(relations, foreignKeys, baseTable) ==
    IF Len(relations) = 0 THEN <<>>
    ELSE With(SelectSeq(foreignKeys, LAMBDA fk : fk.ForeignColumn = relations[1]), LAMBDA fks :
             (IF Len(fks) = 0 THEN <<>>
              ELSE <<"LEFT JOIN">> \o fks[1].PrimaryTable \o <<"ON">>
                   \o baseTable \o <<".">> \o fks[1].ForeignColumn \o <<"=">>
                   \o fks[1].PrimaryTable \o <<".">> \o fks[1].PrimaryColumn)
             \o joinClauses(Tail(relations), foreignKeys, baseTable))

\* the columns "<table>.* as <relation>" of the relations that are foreign keys
RECURSIVE relationColumns(_, _)
relationColumns(relations, foreignKeys) ==
    IF Len(relations) = 0 THEN <<>>
    ELSE With(SelectSeq(foreignKeys, LAMBDA fk : fk.ForeignColumn = relations[1]), LAMBDA fks :
             (IF Len(fks) = 0 THEN <<>>
              ELSE <<",">> \o fks[1].PrimaryTable \o <<".", "*", "as">> \o relations[1])
             \o relationColumns(Tail(relations), foreignKeys))

BuildEmbeddedQuery(baseQuery, relations, baseTable) ==
    IF Len(relations) = 0 THEN baseQuery
    ELSE IF ~Contains(ToUpper(baseQuery), "SELECT") THEN baseQuery
    ELSE
    With(GetForeignKeys(baseTable), LAMBDA foreignKeys :
    With(joinClauses(relations, foreignKeys, baseTable), LAMBDA joins :
    With(IF Len(baseQuery) >= 2 /\ baseQuery[1] = "SELECT" /\ baseQuery[2] = "*"
         THEN <<"SELECT">> \o baseTable \o <<".", "*">>
              \o relationColumns(relations, foreignKeys)
              \o SubSeq(baseQuery, 3, Len(baseQuery))
         ELSE baseQuery, LAMBDA star :
    With(Index(ToUpper(star), "FROM"), LAMBDA fromIndex :
    With(SubSeq(star, fromIndex + 1, Len(star)), LAMBDA afterFrom :
    With(IndexAny(ToUpper(afterFrom), ClauseKeywords), LAMBDA pos :
        IF fromIndex = 0 THEN star
        ELSE IF pos = 0 THEN star \o joins
        ELSE SubSeq(star, 1, fromIndex) \o SubSeq(afterFrom, 1, pos - 1) \o joins
             \o SubSeq(afterFrom, pos, Len(afterFrom))))))))

BuildSelectWithEmbedding(params) ==
    With(BuildSelect(params), LAMBDA base :
    With(ParseEmbeddedRelations(IF Len(params.Select) > 0 THEN Join(params.Select, <<",">>)
                                ELSE <<"*">>), LAMBDA relations :
        IF Len(relations) > 0
        THEN [base EXCEPT !.sql = BuildEmbeddedQuery(base.sql, relations, params.Table)]
        ELSE base))

(***************************************************************************)
(* auth: the JWT manager.  A compact JWT is header.payload.signature; the  *)
(* three segments are tokens that stand for their base64 text.             *)
(***************************************************************************)
\* the JWTConfig of the server: JWT enabled, the configured algorithm
JWTEnabled == TRUE
JWTAlgorithm == "HS256"

\* the alg that each header segment of the model declares
AlgOf == [hHS256 |-> "HS256", hHS512 |-> "HS512", hRS256 |-> "RS256"]

\* the signing methods that are *jwt.SigningMethodHMAC
HMACMethods == {"HS256", "HS384", "HS512"}

\* the signature segment that stands for the MAC of header.payload under the
\* configured secret, computed with the algorithm the header declares
SigSecret == "sigSecret"

\* the claims that each payload segment of the model carries
ClaimsOf ==
    [pUser  |-> [UserID |-> <<"2">>, Role |-> <<"user">>, TenantID |-> <<>>,
                 Permissions |-> {<<"read:", "users">>}, Expired |-> FALSE],
     pGuest |-> [UserID |-> <<"3">>, Role |-> <<"user">>, TenantID |-> <<"t1">>,
                 Permissions |-> {}, Expired |-> FALSE],
     pAdmin |-> [UserID |-> <<"1">>, Role |-> <<"admin">>, TenantID |-> <<>>,
                 Permissions |-> {}, Expired |-> FALSE],
     pOld   |-> [UserID |-> <<"2">>, Role |-> <<"user">>, TenantID |-> <<>>,
                 Permissions |-> {<<"read:", "users">>}, Expired |-> TRUE]]

NoClaims == [UserID |-> <<>>, Role |-> <<>>, TenantID |-> <<>>, Permissions |-> {},
             Expired |-> FALSE]

\* jwt.ParseWithClaims with the key function of ValidateToken: the token has
\* three segments, its method passes the key function, its signature verifies
\* with the secret and its registered claims are valid
ParseWithClaims(tokenString) ==
    With(Split(tokenString, "."), LAMBDA parts :
    With([err |-> TRUE, claims |-> NoClaims], LAMBDA bad :
        IF Len(parts) # 3 \/ \E i \in 1..3 : Len(parts[i]) # 1 THEN bad
        ELSE IF parts[1][1] \notin DOMAIN AlgOf \/ parts[2][1] \notin DOMAIN ClaimsOf THEN bad
        ELSE IF AlgOf[parts[1][1]] \notin HMACMethods THEN bad
        ELSE IF parts[3][1] # SigSecret THEN bad
        ELSE IF ClaimsOf[parts[2][1]].Expired THEN bad
        ELSE [err |-> FALSE, claims |-> ClaimsOf[parts[2][1]]]))

Bearer == <<"Bearer", " ">>

ValidateToken(tokenString) ==
    IF ~JWTEnabled THEN [err |-> FALSE, claims |-> NoClaims]
    ELSE ParseWithClaims(IF HasPrefix(tokenString, Bearer)
                         THEN SubSeq(tokenString, 3, Len(tokenString))
                         ELSE tokenString)

\* url.Values.Get: the first value of the key, "" when absent
QueryGet(query, key) ==
    IF \E kv \in query : kv.key = key
    THEN (CHOOSE kv \in query : kv.key = key).value
    ELSE <<>>

ExtractTokenFromRequest(req) ==
    IF req.authorization # <<>> THEN req.authorization
    ELSE IF QueryGet(req.query, <<"token">>) # <<>>
    THEN Bearer \o QueryGet(req.query, <<"token">>)
    ELSE IF req.cookie # <<>> THEN Bearer \o req.cookie
    ELSE <<>>

\* &AuthContext{Authenticated: false}
Unauthenticated ==
    [Authenticated |-> FALSE, UserID |-> <<>>, Role |-> <<>>, TenantID |-> <<>>,
     Permissions |-> {}, Token |-> <<>>]

AuthenticateRequest(req) ==
    IF ~JWTEnabled THEN [err |-> FALSE, ctx |-> Unauthenticated]
    ELSE With(ExtractTokenFromRequest(req), LAMBDA tokenString :
             IF tokenString = <<>> THEN [err |-> FALSE, ctx |-> Unauthenticated]
             ELSE With(ValidateToken(tokenString), LAMBDA v :
                 IF v.err THEN [err |-> TRUE, ctx |-> Unauthenticated]
                 ELSE [err |-> FALSE,
                       ctx |-> [Authenticated |-> TRUE, UserID |-> v.claims.UserID,
                                Role |-> v.claims.Role, TenantID |-> v.claims.TenantID,
                                Permissions |-> v.claims.Permissions,
                                Token |-> tokenString]]))

HasPermission(a, permission) ==
    IF ~a.Authenticated THEN FALSE
    ELSE IF permission \in a.Permissions THEN TRUE
    ELSE a.Role = <<"admin">>

publicTables == {<<"public_posts">>, <<"products">>, <<"categories">>}

CanAccessTable(a, tableName) ==
    IF ~a.Authenticated THEN tableName \in publicTables
    ELSE IF a.Role = <<"admin">> THEN TRUE
    ELSE HasPermission(a, <<"read:">> \o tableName)

(***************************************************************************)
(* policies: the policy engine                                             *)
(***************************************************************************)
\* the defaultPolicies of CreateDefaultPolicies
DefaultPolicies ==
    << [Name |-> "users_select_own", Table |-> <<"users">>, Action |-> "SELECT",
        Expression |-> <<"id", "=", "current_user_id()", "OR",
                         "current_role()", "=", SQ, "admin", SQ>>],
       [Name |-> "users_update_own", Table |-> <<"users">>, Action |-> "UPDATE",
        Expression |-> <<"id", "=", "current_user_id()", "OR",
                         "current_role()", "=", SQ, "admin", SQ>>],
       [Name |-> "users_delete_admin_only", Table |-> <<"users">>, Action |-> "DELETE",
        Expression |-> <<"current_role()", "=", SQ, "admin", SQ>>],
       [Name |-> "posts_select_public_or_own", Table |-> <<"posts">>, Action |-> "SELECT",
        Expression |-> <<"is_public", "=", "TRUE", "OR", "author_id", "=",
                         "current_user_id()", "OR", "current_role()", "=", SQ, "admin", SQ>>],
       [Name |-> "posts_insert_authenticated", Table |-> <<"posts">>, Action |-> "INSERT",
        Expression |-> <<"current_user_id()", "IS", "NOT", "NULL">>] >>

\* the map that the loop of LoadPolicies builds from the enabled rows
RECURSIVE loadRows(_, _)
loadRows(rows, loaded) ==
    IF Len(rows) = 0 THEN loaded
    ELSE With(rows[1], LAMBDA policy :
             loadRows(Tail(rows),
                [t \in DOMAIN loaded \cup {policy.Table} |->
                    IF t # policy.Table THEN loaded[t]
                    ELSE IF t \in DOMAIN loaded THEN Append(loaded[t], policy)
                    ELSE <<policy>>]))

LoadPolicies(rows) == loadRows(rows, <<>>)

\* INSERT OR IGNORE of the default policies: a name already there is kept
RECURSIVE insertOrIgnore(_, _)
insertOrIgnore(rows, new) ==
    IF Len(new) = 0 THEN rows
    ELSE insertOrIgnore(IF \E i \in DOMAIN rows : rows[i].Name = new[1].Name
                        THEN rows ELSE Append(rows, new[1]),
                        Tail(new))

getPoliciesForTable(loaded, table, action) ==
    IF table \notin DOMAIN loaded THEN <<>>
    ELSE SelectSeq(loaded[table], LAMBDA policy : policy.Action \in {action, "ALL"})

determineActionFromQuery(query) ==
    With(TrimSpace(ToUpper(query)), LAMBDA q :
        IF Len(q) = 0 THEN "UNKNOWN"
        ELSE IF q[1] \in {"SELECT", "INSERT", "UPDATE", "DELETE"} THEN q[1]
        ELSE "UNKNOWN")

evaluatePolicyExpression(expression, authCtx) ==
    IF authCtx.Authenticated /\ authCtx.Role = <<"admin">>
    THEN [sql |-> <<"1=1">>, args |-> <<>>]
    ELSE [sql |->
              ReplaceAll(
                  ReplaceAll(
                      ReplaceAll(expression, "current_user_id()",
                          IF authCtx.Authenticated THEN authCtx.UserID ELSE <<"NULL">>),
                      "current_role()",
                      IF authCtx.Authenticated THEN <<SQ>> \o authCtx.Role \o <<SQ>>
                      ELSE <<SQ, "anonymous", SQ>>),
                  "current_tenant_id()",
                  IF authCtx.Authenticated /\ authCtx.TenantID # <<>>
                  THEN <<SQ>> \o authCtx.TenantID \o <<SQ>>
                  ELSE <<"NULL">>),
          args |-> <<>>]

\* a clause keyword with a blank on both sides
ContainsClause(query, keyword) ==
    \E i \in 2..(Len(query) - 1) : ToUpper(query)[i] = keyword

insertWhereAfterFrom(query, condition) ==
    With(ToUpper(query), LAMBDA upperQuery :
    With(IF \E i \in 2..(Len(query) - 1) : upperQuery[i] = "FROM"
         THEN CHOOSE i \in 2..(Len(query) - 1) :
                  upperQuery[i] = "FROM" /\ \A j \in 2..(i - 1) : upperQuery[j] # "FROM"
         ELSE 0, LAMBDA fromIndex :
    With(SubSeq(query, fromIndex + 1, Len(query)), LAMBDA afterFrom :
    With(IndexAny(ToUpper(afterFrom), ClauseKeywords), LAMBDA pos :
        IF fromIndex = 0 THEN query
        ELSE IF pos = 0 THEN query \o <<"WHERE">> \o condition
        ELSE SubSeq(query, 1, fromIndex) \o SubSeq(afterFrom, 1, pos - 1)
             \o <<"WHERE">> \o condition \o SubSeq(afterFrom, pos, Len(afterFrom))))))

injectSecurityConditions(query, securityCondition, securityArgs) ==
    With(IF Len(query) = 0 THEN "" ELSE ToUpper(query)[1], LAMBDA first :
    With(ContainsClause(query, "WHERE"), LAMBDA hasWhere :
        IF first = "SELECT"
        THEN [err |-> FALSE,
              sql |-> IF hasWhere
                      THEN query \o <<"AND", "(">> \o securityCondition \o <<")">>
                      ELSE insertWhereAfterFrom(query, securityCondition),
              args |-> securityArgs]
        ELSE IF first \in {"UPDATE", "DELETE"}
        THEN [err |-> FALSE,
              sql |-> IF hasWhere
                      THEN query \o <<"AND", "(">> \o securityCondition \o <<")">>
                      ELSE query \o <<"WHERE">> \o securityCondition,
              args |-> securityArgs]
        ELSE [err |-> FALSE, sql |-> query, args |-> securityArgs]))

\* the non-empty conditions of the policies joined by OR, and their arguments
RECURSIVE securityConditions(_, _)
securityConditions(tablePolicies, authCtx) ==
    IF Len(tablePolicies) = 0 THEN [sql |-> <<>>, args |-> <<>>, n |-> 0]
    ELSE With(evaluatePolicyExpression(tablePolicies[1].Expression, authCtx), LAMBDA c :
         With(securityConditions(Tail(tablePolicies), authCtx), LAMBDA r :
             IF c.sql = <<>> THEN r
             ELSE IF r.n = 0 THEN [sql |-> c.sql, args |-> c.args, n |-> 1]
             ELSE [sql |-> c.sql \o <<"OR">> \o r.sql, args |-> c.args \o r.args,
                   n |-> r.n + 1]))

ApplyPolicies(loaded, query, params, authCtx) ==
    With(getPoliciesForTable(loaded, params.Table, determineActionFromQuery(query)),
         LAMBDA tablePolicies :
    With(securityConditions(tablePolicies, authCtx), LAMBDA sec :
        IF Len(tablePolicies) = 0 THEN [err |-> FALSE, sql |-> query, args |-> <<>>]
        ELSE IF sec.n = 0 THEN [err |-> FALSE, sql |-> query, args |-> <<>>]
        ELSE injectSecurityConditions(query, sec.sql, sec.args)))

(***************************************************************************)
(* db: the database manager.  A connection is "open", "closed" or "nil".   *)
(***************************************************************************)
\* the number of readers of a readwrite handle and of any other handle
ReadWriteReaders == 5
ReadOnlyReaders == 10

\* AttachDB on the map dbs; writerOpens is whether createWriter succeeds
AttachDB(dbs, name, mode, writerOpens) ==
    IF mode \notin {"readwrite", "readonly", "memory"} THEN [err |-> TRUE, dbs |-> dbs]
    ELSE IF mode = "readwrite" /\ ~writerOpens THEN [err |-> TRUE, dbs |-> dbs]
    ELSE [err |-> FALSE,
          dbs |-> [n \in DOMAIN dbs \cup {name} |->
                     IF n # name THEN dbs[n]
                     ELSE IF mode = "readwrite"
                     THEN [name |-> name, mode |-> mode, Writer |-> "open",
                           Readers |-> [i \in 1..ReadWriteReaders |-> "open"]]
                     ELSE [name |-> name, mode |-> mode, Writer |-> "nil",
                           Readers |-> [i \in 1..ReadOnlyReaders |-> "open"]]]]

GetDB(dbs, name) ==
    IF name \in DOMAIN dbs THEN [err |-> FALSE, db |-> dbs[name]]
    ELSE [err |-> TRUE, db |-> [name |-> name, mode |-> "", Writer |-> "nil", Readers |-> <<>>]]

\* sql.DB.Close on every connection of a Database, as DetachDB defers it
closeAll(db) ==
    [db EXCEPT !.Writer = IF @ = "nil" THEN "nil" ELSE "closed",
               !.Readers = [i \in DOMAIN @ |-> "closed"]]

\* DetachDB on the map dbs of name -> address and the objects hp by address
DetachDBForgetsDelete(dbs, hp, name) ==
    IF name \in DOMAIN dbs
    THEN [dbs |-> dbs, heap |-> [hp EXCEPT ![dbs[name]] = closeAll(@)]]
    ELSE [dbs |-> dbs, heap |-> hp]

DetachDB(dbs, hp, name) ==
    IF name \in DOMAIN dbs
    THEN [dbs |-> [n \in DOMAIN dbs \ {name} |-> dbs[n]],
          heap |-> [hp EXCEPT ![dbs[name]] = closeAll(@)]]
    ELSE [dbs |-> dbs, heap |-> hp]

\* the databases of the configuration: main, and a read-only attachment
ConfigDatabases ==
    << [Name |-> <<"main">>, Mode |-> "readwrite"],
       [Name |-> <<"archive">>, Mode |-> "readonly"] >>

\* NewManager: the configured databases attached in order
RECURSIVE attachAll(_, _)
attachAll(cfgs, dbs) ==
    IF Len(cfgs) = 0 THEN dbs
    ELSE attachAll(Tail(cfgs), AttachDB(dbs, cfgs[1].Name, cfgs[1].Mode, TRUE).dbs)

NewManager == attachAll(ConfigDatabases, <<>>)

(***************************************************************************)
(* SQLite: the evaluation of the statements the gateway sends.  A table of *)
(* the main database is the set of the ids of its rows; id is its INTEGER  *)
(* PRIMARY KEY and every other column holds NULL.  A condition evaluates   *)
(* to "T", "F", "N" (NULL) or "E" (the statement is in error).             *)
(***************************************************************************)
\* the columns of the tables of the main database
Columns ==
    [t \in {<<"users">>, <<"products">>} |->
        IF t = <<"users">> THEN {<<"id">>, <<"name">>, <<"tenant_id">>}
        ELSE {<<"id">>, <<"name">>}]

TokAt(toks, p) == IF p \in DOMAIN toks THEN toks[p] ELSE ""

\* the position of the first tok at or after p, 0 when absent
NextTok(toks, p, tok) ==
    IF \E j \in p..Len(toks) : toks[j] = tok
    THEN CHOOSE j \in p..Len(toks) : toks[j] = tok /\ \A k \in p..(j - 1) : toks[k] # tok
    ELSE 0

NullValue == [null |-> TRUE, s |-> <<>>]
TextValue(s) == [null |-> FALSE, s |-> s]
ColumnValue(c, name) == IF name = <<"id">> THEN TextValue(Itoa(c.id)) ELSE NullValue
OperandError(p, a) == [ok |-> FALSE, val |-> NullValue, p |-> p, a |-> a]

\* an operand at position p: a column, a literal or the next parameter
sqlOperand(c, p, a) ==
    With(TokAt(c.toks, p), LAMBDA t :
    With(NextTok(c.toks, p + 1, t), LAMBDA q :
    With(SubSeq(c.toks, p + 1, q - 1), LAMBDA name :
        CASE t = BT ->
                IF q = 0 \/ name \notin c.cols THEN OperandError(p, a)
                ELSE [ok |-> TRUE, val |-> ColumnValue(c, name), p |-> q + 1, a |-> a]
          [] t = SQ ->
                IF q = 0 THEN OperandError(p, a)
                ELSE [ok |-> TRUE, val |-> TextValue(name), p |-> q + 1, a |-> a]
          [] t = "?" ->
                IF a > Len(c.args) THEN OperandError(p, a)
                ELSE [ok |-> TRUE, val |-> TextValue(c.args[a]), p |-> p + 1, a |-> a + 1]
          [] t = "NULL" -> [ok |-> TRUE, val |-> NullValue, p |-> p + 1, a |-> a]
          [] t = "TRUE" -> [ok |-> TRUE, val |-> TextValue(<<"1">>), p |-> p + 1, a |-> a]
          [] t = "FALSE" -> [ok |-> TRUE, val |-> TextValue(<<"0">>), p |-> p + 1, a |-> a]
          [] Atoi(<<t>>).ok -> [ok |-> TRUE, val |-> TextValue(<<t>>), p |-> p + 1, a |-> a]
          [] <<t>> \in c.cols ->
                [ok |-> TRUE, val |-> ColumnValue(c, <<t>>), p |-> p + 1, a |-> a]
          [] OTHER -> OperandError(p, a))))

Bool3(b) == IF b THEN "T" ELSE "F"
Not3(v) == CASE v = "T" -> "F" [] v = "F" -> "T" [] OTHER -> v
And3(l, r) ==
    IF "E" \in {l, r} THEN "E" ELSE IF "F" \in {l, r} THEN "F"
    ELSE IF "N" \in {l, r} THEN "N" ELSE "T"
Or3(l, r) ==
    IF "E" \in {l, r} THEN "E" ELSE IF "T" \in {l, r} THEN "T"
    ELSE IF "N" \in {l, r} THEN "N" ELSE "F"

\* a binary comparison of two values
Compare3(op, l, r) ==
    IF op = "IS" THEN Bool3(l = r)
    ELSE IF l.null \/ r.null THEN "N"
    ELSE IF op = "=" THEN Bool3(l.s = r.s)
    ELSE IF op = "!=" THEN Bool3(l.s # r.s)
    ELSE IF op = "LIKE" THEN Bool3(l.s = r.s)
    ELSE With(Atoi(l.s), LAMBDA x :
         With(Atoi(r.s), LAMBDA y :
             IF ~(x.ok /\ y.ok) THEN Bool3(op \in {"<", "<="})
             ELSE CASE op = ">" -> Bool3(x.n > y.n)
                    [] op = ">=" -> Bool3(x.n >= y.n)
                    [] op = "<" -> Bool3(x.n < y.n)
                    [] OTHER -> Bool3(x.n =< y.n)))

CondError(p, a) == [v |-> "E", p |-> p, a |-> a]

ComparisonOps == {"=", "!=", ">", ">=", "<", "<=", "LIKE", "IS"}

\* a value as a condition: NULL is NULL, a number is true unless it is 0, any
\* other text casts to 0
Truth3(val) ==
    IF val.null THEN "N" ELSE With(Atoi(val.s), LAMBDA n : Bool3(n.ok /\ n.n # 0))

\* the list of an IN: v is whether val is in it
RECURSIVE sqlInList(_, _, _, _, _)
sqlInList(c, val, p, a, found) ==
    With(sqlOperand(c, p, a), LAMBDA o :
    With(TokAt(c.toks, o.p), LAMBDA sep :
    With(IF Compare3("=", val, o.val) = "T" THEN "T"
         ELSE IF found = "T" THEN "T"
         ELSE IF val.null \/ o.val.null THEN "N" ELSE found, LAMBDA hit :
        IF ~o.ok THEN CondError(p, a)
        ELSE IF sep = "," THEN sqlInList(c, val, o.p + 1, o.a, hit)
        ELSE IF sep = ")" THEN [v |-> hit, p |-> o.p + 1, a |-> o.a]
        ELSE CondError(o.p, o.a))))

RECURSIVE sqlOr(_, _, _), sqlOrRest(_, _), sqlAnd(_, _, _), sqlAndRest(_, _),
          sqlPredicate(_, _, _)
\* operand operator operand, operand IN (list), or an operand alone
sqlComparison(c, p, a) ==
    With(sqlOperand(c, p, a), LAMBDA l :
    With(TokAt(c.toks, l.p), LAMBDA op :
    With(op = "IS" /\ TokAt(c.toks, l.p + 1) = "NOT", LAMBDA isNot :
        IF ~l.ok THEN CondError(p, a)
        ELSE IF op = "IN" THEN
            IF TokAt(c.toks, l.p + 1) = "(" THEN sqlInList(c, l.val, l.p + 2, l.a, "F")
            ELSE CondError(l.p, l.a)
        ELSE IF op \notin ComparisonOps THEN [v |-> Truth3(l.val), p |-> l.p, a |-> l.a]
        ELSE With(sqlOperand(c, IF isNot THEN l.p + 2 ELSE l.p + 1, l.a), LAMBDA r :
                 IF ~r.ok THEN CondError(l.p, l.a)
                 ELSE [v |-> With(Compare3(IF isNot THEN "IS" ELSE op, l.val, r.val),
                                  LAMBDA v : IF isNot THEN Not3(v) ELSE v),
                       p |-> r.p, a |-> r.a]))))

\* a parenthesised condition, the constant 1=1, a negation or a comparison
sqlPredicate(c, p, a) ==
    With(TokAt(c.toks, p), LAMBDA t :
        IF t = "(" THEN
            With(sqlOr(c, p + 1, a), LAMBDA inner :
                IF inner.v = "E" \/ TokAt(c.toks, inner.p) # ")" THEN CondError(p, a)
                ELSE [inner EXCEPT !.p = inner.p + 1])
        ELSE IF t = "1=1" THEN [v |-> "T", p |-> p + 1, a |-> a]
        ELSE IF t = "NOT" THEN
            With(sqlPredicate(c, p + 1, a), LAMBDA n : [n EXCEPT !.v = Not3(n.v)])
        ELSE sqlComparison(c, p, a))

\* the conjuncts after the condition l, and the disjuncts after it
sqlAndRest(c, l) ==
    IF l.v = "E" \/ TokAt(c.toks, l.p) # "AND" THEN l
    ELSE With(sqlPredicate(c, l.p + 1, l.a), LAMBDA r :
             sqlAndRest(c, [v |-> And3(l.v, r.v), p |-> r.p, a |-> r.a]))

sqlAnd(c, p, a) == sqlAndRest(c, sqlPredicate(c, p, a))

sqlOrRest(c, l) ==
    IF l.v = "E" \/ TokAt(c.toks, l.p) # "OR" THEN l
    ELSE With(sqlAnd(c, l.p + 1, l.a), LAMBDA r :
             sqlOrRest(c, [v |-> Or3(l.v, r.v), p |-> r.p, a |-> r.a]))

sqlOr(c, p, a) == sqlOrRest(c, sqlAnd(c, p, a))

\* the number of placeholders of a statement
CountTok(toks, tok) == Cardinality({i \in DOMAIN toks : toks[i] = tok})

\* a table name at position p, quoted or bare
sqlTable(toks, p) ==
    With(NextTok(toks, p + 1, BT), LAMBDA q :
        IF TokAt(toks, p) = BT
        THEN IF q = 0 THEN [ok |-> FALSE, name |-> <<>>, p |-> p]
             ELSE With(SubSeq(toks, p + 1, q - 1), LAMBDA name :
                      [ok |-> name \in DOMAIN Columns, name |-> name, p |-> q + 1])
        ELSE [ok |-> <<TokAt(toks, p)>> \in DOMAIN Columns,
              name |-> <<TokAt(toks, p)>>, p |-> p + 1])

\* the statement, its arguments and the columns of its table, at the row id
sqlContext(sql, args, tab, id) ==
    [toks |-> sql, args |-> args, cols |-> Columns[tab.name], id |-> id]

\* an optional WHERE clause at position p
sqlWhere(c, p, a) ==
    IF TokAt(c.toks, p) = "WHERE" THEN sqlOr(c, p + 1, a) ELSE [v |-> "T", p |-> p, a |-> a]

\* the WHERE clause at position p at every row of the table, and at no row (0)
sqlWhereByRow(tables, sql, args, tab, p, a) ==
    [id \in tables[tab.name] \cup {0} |-> sqlWhere(sqlContext(sql, args, tab, id), p, a)]

\* the terms of an ORDER BY: desc is the direction of the first term
RECURSIVE sqlOrderTerms(_, _, _)
sqlOrderTerms(c, p, a) ==
    With(sqlOperand(c, p, a), LAMBDA o :
    With(TokAt(c.toks, o.p), LAMBDA dir :
    With(IF dir \in {"ASC", "DESC"} THEN o.p + 1 ELSE o.p, LAMBDA q :
        IF ~o.ok THEN [ok |-> FALSE, desc |-> FALSE, p |-> p, a |-> a]
        ELSE IF TokAt(c.toks, q) = ","
        THEN [sqlOrderTerms(c, q + 1, o.a) EXCEPT !.desc = (dir = "DESC")]
        ELSE [ok |-> TRUE, desc |-> (dir = "DESC"), p |-> q, a |-> o.a])))

\* the expression of a LIMIT or of an OFFSET, which sees no column: one
\* operand is its number, anything longer is a condition, 1 or 0
sqlLimitExpr(c, p, a) ==
    With([c EXCEPT !.cols = {}], LAMBDA c0 :
    With(sqlOperand(c0, p, a), LAMBDA o :
        IF o.ok /\ TokAt(c.toks, o.p) \notin ComparisonOps \cup {"AND", "OR", "IN"}
        THEN With(Atoi(o.val.s), LAMBDA n :
                 [ok |-> ~o.val.null /\ n.ok, n |-> n.n, p |-> o.p, a |-> o.a])
        ELSE With(sqlOr(c0, p, a), LAMBDA e :
                 [ok |-> e.v \in {"T", "F"}, n |-> IF e.v = "T" THEN 1 ELSE 0,
                  p |-> e.p, a |-> e.a])))

\* a LIMIT or an OFFSET clause at position p, none when the keyword is absent
sqlLimitClause(c, p, a, keyword, none) ==
    IF TokAt(c.toks, p) = keyword THEN sqlLimitExpr(c, p + 1, a)
    ELSE [ok |-> TRUE, n |-> none, p |-> p, a |-> a]

\* the clauses after the WHERE of a SELECT: ORDER BY, LIMIT, OFFSET, the end.
\* limit is -1 when there is none
sqlTail(c, p, a) ==
    With(IF TokAt(c.toks, p) = "ORDER BY" THEN sqlOrderTerms(c, p + 1, a)
         ELSE [ok |-> TRUE, desc |-> FALSE, p |-> p, a |-> a], LAMBDA ord :
    With(sqlLimitClause(c, ord.p, ord.a, "LIMIT", -1), LAMBDA lim :
    With(sqlLimitClause(c, lim.p, lim.a, "OFFSET", 0), LAMBDA off :
        IF ~ord.ok \/ ~lim.ok \/ ~off.ok
           \/ off.p # Len(c.toks) + 1 \/ off.a # Len(c.args) + 1
        THEN [ok |-> FALSE, desc |-> FALSE, limit |-> -1, offset |-> 0]
        ELSE [ok |-> TRUE, desc |-> ord.desc, limit |-> lim.n, offset |-> off.n])))

\* the ids of a set in ascending or in descending order
RECURSIVE SortIds(_, _)
SortIds(ids, desc) ==
    IF ids = {} THEN <<>>
    ELSE With(CHOOSE x \in ids : \A y \in ids : IF desc THEN y =< x ELSE x =< y, LAMBDA m :
             <<m>> \o SortIds(ids \ {m}, desc))

\* the items of a select list are *, COUNT(*), t.* or columns of the table
sqlSelectList(toks, cols) ==
    With(Split(toks, ","), LAMBDA items :
        Len(toks) > 0 /\
        \A i \in DOMAIN items :
            \/ items[i] \in {<<"*">>, <<"COUNT(*)">>}
            \/ Len(items[i]) = 3 /\ items[i][2] = "." /\ items[i][3] = "*"
            \/ items[i] \in cols
            \/ /\ Len(items[i]) >= 3 /\ items[i][1] = BT /\ items[i][Len(items[i])] = BT
               /\ SubSeq(items[i], 2, Len(items[i]) - 1) \in cols)

QueryError == [err |-> TRUE, rows |-> <<>>]

\* the rows offset+1 .. offset+limit of the hits in order
sqlWindow(hits, tail) ==
    SubSeq(hits, tail.offset + 1,
           IF tail.limit < 0 \/ tail.offset + tail.limit > Len(hits) THEN Len(hits)
           ELSE tail.offset + tail.limit)

\* (*sql.DB).Query on the main database: the ids of the rows of the result
sqliteQuery(tables, sql, args) ==
    With(Index(sql, "FROM"), LAMBDA from :
    With(sqlTable(sql, from + 1), LAMBDA tab :
        IF TokAt(sql, 1) # "SELECT" \/ from = 0 \/ ~tab.ok THEN QueryError
        ELSE IF ~sqlSelectList(SubSeq(sql, 2, from - 1), Columns[tab.name]) THEN QueryError
        ELSE
        With(sqlWhereByRow(tables, sql, args, tab, tab.p, 1), LAMBDA w :
        With(w[0], LAMBDA w0 :
        With(sqlTail(sqlContext(sql, args, tab, 0), w0.p, w0.a), LAMBDA tail :
            IF w0.v = "E" \/ ~tail.ok THEN QueryError
            ELSE [err |-> FALSE,
                  rows |-> sqlWindow(SortIds({id \in tables[tab.name] : w[id].v = "T"},
                                             tail.desc), tail)])))))

\* the assignments of the SET of an UPDATE
RECURSIVE sqlAssignments(_, _, _)
sqlAssignments(c, p, a) ==
    With(NextTok(c.toks, p + 1, BT), LAMBDA q :
    With(SubSeq(c.toks, p + 1, q - 1), LAMBDA column :
    With(sqlOperand(c, q + 2, a), LAMBDA o :
    With([ok |-> FALSE, sets |-> <<>>, p |-> p, a |-> a], LAMBDA bad :
        IF TokAt(c.toks, p) # BT \/ q = 0 \/ column \notin c.cols
           \/ TokAt(c.toks, q + 1) # "=" \/ ~o.ok THEN bad
        ELSE IF TokAt(c.toks, o.p) = ","
        THEN With(sqlAssignments(c, o.p + 1, o.a), LAMBDA rest :
                 IF rest.ok
                 THEN [rest EXCEPT !.sets = <<[column |-> column, val |-> o.val]>> \o @]
                 ELSE bad)
        ELSE [ok |-> TRUE, sets |-> <<[column |-> column, val |-> o.val]>>,
              p |-> o.p, a |-> o.a]))))

ExecError(tables) == [err |-> TRUE, tables |-> tables, rowsAffected |-> 0]

\* the id that a list of assignments gives: set is FALSE when none does
AssignedId(sets) ==
    With({i \in DOMAIN sets : sets[i].column = <<"id">>}, LAMBDA idx :
        IF idx = {} THEN [set |-> FALSE, ok |-> TRUE, n |-> 0]
        ELSE With(sets[CHOOSE i \in idx : \A j \in idx : j =< i].val, LAMBDA final :
             With(Atoi(final.s), LAMBDA n :
                 [set |-> TRUE, ok |-> ~final.null /\ n.ok, n |-> n.n])))

sqliteDelete(tables, sql, args) ==
    With(sqlTable(sql, 3), LAMBDA tab :
        IF ~tab.ok THEN ExecError(tables)
        ELSE
        With(sqlWhereByRow(tables, sql, args, tab, tab.p, 1), LAMBDA w :
        With(w[0], LAMBDA w0 :
        With({id \in tables[tab.name] : w[id].v = "T"}, LAMBDA hits :
            IF w0.v = "E" \/ w0.p # Len(sql) + 1 \/ w0.a # Len(args) + 1
            THEN ExecError(tables)
            ELSE [err |-> FALSE, tables |-> [tables EXCEPT ![tab.name] = @ \ hits],
                  rowsAffected |-> Cardinality(hits)]))))

sqliteUpdate(tables, sql, args) ==
    With(sqlTable(sql, 2), LAMBDA tab :
        IF ~tab.ok \/ TokAt(sql, tab.p) # "SET" THEN ExecError(tables)
        ELSE
        With(sqlAssignments(sqlContext(sql, args, tab, 0), tab.p + 1, 1), LAMBDA asg :
        IF ~asg.ok THEN ExecError(tables)
        ELSE
        With(sqlWhereByRow(tables, sql, args, tab, asg.p, asg.a), LAMBDA w :
        With(w[0], LAMBDA w0 :
        With({id \in tables[tab.name] : w[id].v = "T"}, LAMBDA hits :
        With(AssignedId(asg.sets), LAMBDA newId :
            IF w0.v = "E" \/ w0.p # Len(sql) + 1 \/ w0.a # Len(args) + 1
            THEN ExecError(tables)
            ELSE IF ~newId.set \/ hits = {}
            THEN [err |-> FALSE, tables |-> tables, rowsAffected |-> Cardinality(hits)]
            ELSE IF ~newId.ok \/ Cardinality(hits) > 1 \/ newId.n \in tables[tab.name] \ hits
            THEN ExecError(tables)
            ELSE [err |-> FALSE,
                  tables |-> [tables EXCEPT ![tab.name] = (@ \ hits) \cup {newId.n}],
                  rowsAffected |-> 1]))))))

\* the quoted column names of the list of an INSERT, up to the closing bracket
RECURSIVE sqlColumnList(_, _, _)
sqlColumnList(toks, p, cols) ==
    With(NextTok(toks, p + 1, BT), LAMBDA q :
    With(SubSeq(toks, p + 1, q - 1), LAMBDA column :
    With([ok |-> FALSE, columns |-> <<>>, p |-> p], LAMBDA bad :
    With(TokAt(toks, q + 1), LAMBDA sep :
        IF TokAt(toks, p) # BT \/ q = 0 \/ column \notin cols THEN bad
        ELSE IF sep = ","
        THEN With(sqlColumnList(toks, q + 2, cols), LAMBDA rest :
                 IF rest.ok THEN [rest EXCEPT !.columns = <<column>> \o @] ELSE bad)
        ELSE IF sep = ")"
        THEN [ok |-> TRUE, columns |-> <<column>>, p |-> q + 2]
        ELSE bad))))

\* the values of an INSERT, up to the closing bracket
RECURSIVE sqlValueList(_, _, _)
sqlValueList(c, p, a) ==
    With(sqlOperand(c, p, a), LAMBDA o :
    With([ok |-> FALSE, vals |-> <<>>, p |-> p, a |-> a], LAMBDA bad :
    With(TokAt(c.toks, o.p), LAMBDA sep :
        IF ~o.ok THEN bad
        ELSE IF sep = ","
        THEN With(sqlValueList(c, o.p + 1, o.a), LAMBDA rest :
                 IF rest.ok THEN [rest EXCEPT !.vals = <<o.val>> \o @] ELSE bad)
        ELSE IF sep = ")"
        THEN [ok |-> TRUE, vals |-> <<o.val>>, p |-> o.p + 1, a |-> o.a]
        ELSE bad)))

\* the rowid SQLite gives a row inserted without an id
NextRowId(ids) == IF ids = {} THEN 1 ELSE (CHOOSE x \in ids : \A y \in ids : y =< x) + 1

sqliteInsert(tables, sql, args) ==
    With(sqlTable(sql, 3), LAMBDA tab :
        IF ~tab.ok \/ TokAt(sql, tab.p) # "(" THEN ExecError(tables)
        ELSE
        With(sqlColumnList(sql, tab.p + 1, Columns[tab.name]), LAMBDA cl :
        IF ~cl.ok \/ TokAt(sql, cl.p) # "VALUES" \/ TokAt(sql, cl.p + 1) # "("
        THEN ExecError(tables)
        ELSE
        With(sqlValueList([toks |-> sql, args |-> args, cols |-> {}, id |-> 0], cl.p + 2, 1),
             LAMBDA vl :
        IF ~vl.ok \/ Len(vl.vals) # Len(cl.columns) \/ vl.p # Len(sql) + 1
           \/ vl.a # Len(args) + 1
        THEN ExecError(tables)
        ELSE
        With(AssignedId([i \in DOMAIN cl.columns |->
                            [column |-> cl.columns[i], val |-> vl.vals[i]]]), LAMBDA given :
        With(IF given.set THEN given.n ELSE NextRowId(tables[tab.name]), LAMBDA id :
            IF ~given.ok \/ id \in tables[tab.name] THEN ExecError(tables)
            ELSE [err |-> FALSE, tables |-> [tables EXCEPT ![tab.name] = @ \cup {id}],
                  rowsAffected |-> 1])))))

\* (*sql.DB).Exec on the main database
sqliteExec(tables, sql, args) ==
    CASE TokAt(sql, 1) = "INSERT" /\ TokAt(sql, 2) = "INTO" -> sqliteInsert(tables, sql, args)
      [] TokAt(sql, 1) = "UPDATE" -> sqliteUpdate(tables, sql, args)
      [] TokAt(sql, 1) = "DELETE" /\ TokAt(sql, 2) = "FROM" -> sqliteDelete(tables, sql, args)
      [] OTHER -> ExecError(tables)

(***************************************************************************)
(* engine: the executor.  Its db is a connection of a database handle; a   *)
(* call on a nil *sql.DB panics, a call on a closed one is an error.       *)
(***************************************************************************)
\* ExecuteSelect: the rows of the result
ExecuteSelect(db, tables, query, args) ==
    IF db = "nil" THEN [panic |-> TRUE, err |-> FALSE, rows |-> <<>>]
    ELSE IF db = "closed" THEN [panic |-> FALSE, err |-> TRUE, rows |-> <<>>]
    ELSE With(sqliteQuery(tables, query, args), LAMBDA r :
             [panic |-> FALSE, err |-> r.err, rows |-> r.rows])

\* ExecuteCommand: the rows affected and the tables after the command
ExecuteCommand(db, tables, query, args) ==
    IF db = "nil" THEN [panic |-> TRUE, err |-> FALSE, tables |-> tables, rowsAffected |-> 0]
    ELSE IF db = "closed"
    THEN [panic |-> FALSE, err |-> TRUE, tables |-> tables, rowsAffected |-> 0]
    ELSE With(sqliteExec(tables, query, args), LAMBDA r :
             [panic |-> FALSE, err |-> r.err, tables |-> r.tables,
              rowsAffected |-> r.rowsAffected])

(***************************************************************************)
(* router: the table handlers.  A request is its database route, its path, *)
(* its three token locations, its query parameters and its JSON body; kvs  *)
(* and data are the query parameters and the body members in the order in  *)
(* which the range over their map yields them.  srv is the state the       *)
(* handler reads: the database handles, the loaded policies, the tables.   *)
(***************************************************************************)
\* the response of a handler that ended before it reached the database
Reply(status, srv, authCalled, authCtx) ==
    [status |-> status, authCalled |-> authCalled, authCtx |-> authCtx,
     executed |-> FALSE, conn |-> "none", sql |-> <<>>, args |-> <<>>,
     rows |-> <<>>, rowsAffected |-> 0, panic |-> FALSE, mode |-> "",
     tables |-> srv.tables]

\* the response of a handler that called the executor on database.Writer; a
\* panic of the handler goroutine leaves the client without a response
Executed(okStatus, srv, authCalled, authCtx, handle, sql, args, r) ==
    [status |-> IF r.panic THEN 0 ELSE IF r.err THEN 500 ELSE okStatus,
     authCalled |-> authCalled, authCtx |-> authCtx,
     executed |-> ~r.panic, conn |-> "Writer", sql |-> sql, args |-> args,
     rows |-> IF "rows" \in DOMAIN r THEN r.rows ELSE <<>>,
     rowsAffected |-> IF "rowsAffected" \in DOMAIN r THEN r.rowsAffected ELSE 0,
     panic |-> r.panic, mode |-> handle.mode,
     tables |-> IF "tables" \in DOMAIN r THEN r.tables ELSE srv.tables]

\* handleTableQuery from ApplyPolicies on: the policies are applied and the
\* statement runs on database.Writer with the two parameter lists combined
tableQuerySecured(srv, authCtx, database, built, secure) ==
    IF secure.err THEN Reply(500, srv, TRUE, authCtx)
    ELSE Executed(200, srv, TRUE, authCtx, database.db, secure.sql,
                  built.args \o secure.args,
                  ExecuteSelect(database.db.Writer, srv.tables, secure.sql,
                                built.args \o secure.args))

\* handleTableQuery from GetDB on: the database is looked up and the
\* statement is built
tableQueryBuilt(srv, authCtx, params, database, built) ==
    IF database.err THEN Reply(404, srv, TRUE, authCtx)
    ELSE IF built.err THEN Reply(400, srv, TRUE, authCtx)
    ELSE tableQuerySecured(srv, authCtx, database, built,
                           ApplyPolicies(srv.policies, built.sql, params, authCtx))

\* handleTableQuery from ParseQuery on: the query is parsed and the access
\* to the table is checked
tableQueryParsed(dbName, srv, authCtx, parsed) ==
    IF parsed.err THEN Reply(400, srv, TRUE, authCtx)
    ELSE IF ~CanAccessTable(authCtx, parsed.params.Table) THEN Reply(403, srv, TRUE, authCtx)
    ELSE tableQueryBuilt(srv, authCtx, parsed.params, GetDB(srv.databases, dbName),
                         BuildSelectWithEmbedding(parsed.params))

\* handleTableQuery after AuthenticateRequest
tableQueryAuthenticated(dbName, req, kvs, srv, auth) ==
    IF auth.err THEN Reply(401, srv, TRUE, auth.ctx)
    ELSE tableQueryParsed(dbName, srv, auth.ctx, ParseQuery(req.path, kvs))

handleTableQuery(dbName, req, kvs, srv) ==
    tableQueryAuthenticated(dbName, req, kvs, srv, AuthenticateRequest(req))

\* the end of the three write handlers: the statement is built and runs on
\* database.Writer
executeWrite(okStatus, srv, database, built) ==
    IF built.err THEN Reply(400, srv, FALSE, Unauthenticated)
    ELSE Executed(okStatus, srv, FALSE, Unauthenticated, database.db, built.sql, built.args,
                  ExecuteCommand(database.db.Writer, srv.tables, built.sql, built.args))

handleTableCreate(dbName, req, kvs, data, srv) ==
    IF ~req.body.valid THEN Reply(400, srv, FALSE, Unauthenticated)
    ELSE
    With(GetDB(srv.databases, dbName), LAMBDA database :
    IF database.err THEN Reply(404, srv, FALSE, Unauthenticated)
    ELSE
    With(ParseQuery(req.path, kvs), LAMBDA parsed :
    IF parsed.err THEN Reply(400, srv, FALSE, Unauthenticated)
    ELSE executeWrite(201, srv, database, BuildInsert(parsed.params.Table, data))))

handleTableUpdate(dbName, req, kvs, data, srv) ==
    IF ~req.body.valid THEN Reply(400, srv, FALSE, Unauthenticated)
    ELSE
    With(GetDB(srv.databases, dbName), LAMBDA database :
    IF database.err THEN Reply(404, srv, FALSE, Unauthenticated)
    ELSE
    With(ParseQuery(req.path, kvs), LAMBDA parsed :
    IF parsed.err THEN Reply(400, srv, FALSE, Unauthenticated)
    ELSE executeWrite(200, srv, database,
                      BuildUpdate(parsed.params.Table, data, parsed.params.Filters))))

handleTableDelete(dbName, req, kvs, srv) ==
    With(GetDB(srv.databases, dbName), LAMBDA database :
    IF database.err THEN Reply(404, srv, FALSE, Unauthenticated)
    ELSE
    With(ParseQuery(req.path, kvs), LAMBDA parsed :
    IF parsed.err THEN Reply(400, srv, FALSE, Unauthenticated)
    ELSE executeWrite(200, srv, database,
                      BuildDelete(parsed.params.Table, parsed.params.Filters))))

(***************************************************************************)
(* rpc: the RPC dispatcher, on the writer of the main database             *)
(***************************************************************************)
\* the functions map after loadDefaultFunctions: the method of each name
DefaultFunctions ==
    [n \in {<<"hello">>, <<"count_users">>, <<"user_stats">>} |->
        IF n = <<"count_users">> THEN "GET" ELSE "POST"]

extractFunctionName(path) ==
    With(Split(Trim(path, {"/"}), "/"), LAMBDA parts :
        IF Len(parts) >= 2 /\ parts[1] = <<"rpc">> THEN parts[2] ELSE <<>>)

\* the statement of countUsersFunction and its parameters
countUsersQuery(authCtx) ==
    IF authCtx.Authenticated /\ authCtx.Role = <<"admin">>
    THEN [sql |-> <<"SELECT", "COUNT(*)", "FROM", "users">>, args |-> <<>>]
    ELSE IF authCtx.Authenticated
    THEN [sql |-> <<"SELECT", "COUNT(*)", "FROM", "users", "WHERE", "id", "=", "?">>,
          args |-> <<authCtx.UserID>>]
    ELSE [sql |-> <<"SELECT", "COUNT(*)", "FROM", "users", "WHERE", "is_public", "=", "TRUE">>,
          args |-> <<>>]

\* the statement of userStatsFunction about the user
userStatsQuery(userID) ==
    [sql |-> <<"SELECT", "id", ",", "name", ",", "email", "FROM", "users",
               "WHERE", "id", "=", "?">>,
     args |-> <<userID>>]

\* params["user_id"].(string): the member of the body, "" with ok FALSE when absent
userIdParam(data) ==
    With({i \in DOMAIN data : data[i].column = <<"user_id">>}, LAMBDA idx :
        IF idx = {} THEN [ok |-> FALSE, s |-> <<>>]
        ELSE [ok |-> TRUE, s |-> data[CHOOSE i \in idx : TRUE].value])

\* the registered functions: the statement a function runs, none for hello;
\* err is the error the function returns before it runs a statement
executeFunction(functionName, authCtx, data) ==
    IF functionName = <<"hello">> THEN [err |-> FALSE, runs |-> FALSE]
    ELSE IF functionName = <<"count_users">>
    THEN [err |-> FALSE, runs |-> TRUE, q |-> countUsersQuery(authCtx)]
    ELSE IF functionName = <<"user_stats">>
    THEN With(userIdParam(data), LAMBDA param :
         With(IF param.ok THEN param.s ELSE authCtx.UserID, LAMBDA userID :
             IF ~param.ok /\ ~authCtx.Authenticated THEN [err |-> TRUE, runs |-> FALSE]
             ELSE IF authCtx.UserID # userID /\ authCtx.Role # <<"admin">>
             THEN [err |-> TRUE, runs |-> FALSE]
             ELSE [err |-> FALSE, runs |-> TRUE, q |-> userStatsQuery(userID)]))
    ELSE [err |-> TRUE, runs |-> FALSE]

HandleRPC(functionsMap, req, data, srv) ==
    With(extractFunctionName(req.path), LAMBDA functionName :
    IF functionName = <<>> THEN Reply(400, srv, FALSE, Unauthenticated)
    ELSE IF functionName \notin DOMAIN functionsMap
    THEN Reply(404, srv, FALSE, Unauthenticated)
    ELSE IF req.method # functionsMap[functionName]
    THEN Reply(405, srv, FALSE, Unauthenticated)
    ELSE
    With(AuthenticateRequest(req), LAMBDA auth :
    With(auth.ctx, LAMBDA authCtx :
    IF auth.err THEN Reply(401, srv, TRUE, authCtx)
    ELSE IF req.method = "POST" /\ ~req.body.valid THEN Reply(400, srv, TRUE, authCtx)
    ELSE
    With(executeFunction(functionName, authCtx, data), LAMBDA call :
    IF call.err THEN Reply(500, srv, TRUE, authCtx)
    ELSE IF ~call.runs THEN Reply(200, srv, TRUE, authCtx)
    ELSE
    With(GetDB(srv.databases, <<"main">>).db, LAMBDA main :
    With(Executed(200, srv, TRUE, authCtx, main, call.q.sql, call.q.args,
                  ExecuteSelect(main.Writer, srv.tables, call.q.sql, call.q.args)), LAMBDA r :
        IF functionName = <<"user_stats">> /\ r.status = 200 /\ Len(r.rows) = 0
        THEN [r EXCEPT !.status = 500]
        ELSE r))))))

(***************************************************************************)
(* The requests of the model.                                              *)
(***************************************************************************)
Jwt(header, payload, signature) == <<header, ".", payload, ".", signature>>

\* tokens that ValidateToken accepts
tokUser == Jwt("hHS256", "pUser", SigSecret)
tokGuest == Jwt("hHS256", "pGuest", SigSecret)
tokAdmin == Jwt("hHS256", "pAdmin", SigSecret)
\* a token signed with the secret under another HMAC variant
tokHS512 == Jwt("hHS512", "pUser", SigSecret)
\* an expired token, a token with a forged signature
tokOld == Jwt("hHS256", "pOld", SigSecret)
tokForged == Jwt("hHS256", "pAdmin", "sigOther")

\* where a request carries its token: the Authorization header, the token
\* query parameter, the jwt_token cookie, or nowhere
TokenLocations ==
    {[authorization |-> Bearer \o t, token |-> <<>>, cookie |-> <<>>] :
        t \in {tokUser, tokGuest, tokAdmin, tokHS512, tokOld, tokForged}}
    \cup {[authorization |-> <<>>, token |-> t, cookie |-> <<>>] : t \in {tokUser, tokForged}}
    \cup {[authorization |-> <<>>, token |-> <<>>, cookie |-> t] : t \in {tokUser, tokForged}}
    \cup {[authorization |-> <<>>, token |-> <<>>, cookie |-> <<>>]}

\* the query parameters of a served request, beside the token
ServedParams ==
    {[key |-> <<"id">>, value |-> <<"eq", ".", "1">>],
     [key |-> <<"limit">>, value |-> <<"1">>]}

\* the subsets of S of at most n elements
AtMost(S, n) == {T \in SUBSET S : Cardinality(T) =< n}

\* the JSON bodies: one that does not decode, and objects
Bodies ==
    {[valid |-> FALSE, members |-> {}], [valid |-> TRUE, members |-> {}],
     [valid |-> TRUE, members |-> {[column |-> <<"name">>, value |-> <<"b">>]}],
     [valid |-> TRUE, members |-> {[column |-> <<"id">>, value |-> <<"2">>],
                                   [column |-> <<"name">>, value |-> <<"b">>]}]}

NoBody == [valid |-> FALSE, members |-> {}]

\* the table routes: two tables of main, one of the read-only database
Routes ==
    {[db |-> <<"main">>, path |-> <<"/", "main", "/", "users">>],
     [db |-> <<"main">>, path |-> <<"/", "main", "/", "products">>],
     [db |-> <<"archive">>, path |-> <<"/", "archive", "/", "users">>]}

TableRequests(method, bodies) ==
    {[method |-> method, db |-> r.db, path |-> r.path,
      authorization |-> l.authorization, cookie |-> l.cookie,
      query |-> q \cup (IF l.token = <<>> THEN {}
                        ELSE {[key |-> <<"token">>, value |-> l.token]}),
      body |-> b] :
        r \in Routes, l \in TokenLocations, q \in AtMost(ServedParams, MaxServedParams),
        b \in bodies}

RPCNames == {<<"hello">>, <<"count_users">>, <<"user_stats">>, <<"bogus">>}

RPCRequests ==
    {[method |-> m, db |-> <<"main">>, path |-> <<"/", "rpc", "/">> \o n,
      authorization |-> l.authorization, cookie |-> l.cookie,
      query |-> IF l.token = <<>> THEN {} ELSE {[key |-> <<"token">>, value |-> l.token]},
      body |-> b] :
        m \in {"GET", "POST"}, n \in RPCNames, l \in TokenLocations,
        b \in {NoBody, [valid |-> TRUE, members |-> {}]}}

(***************************************************************************)
(* The server.  last is the request being answered and its response, or    *)
(* Idle between two requests.                                              *)
(***************************************************************************)
Idle == [kind |-> "idle"]

\* policy rows that an operator stored before the server started
TenantPolicy ==
    [Name |-> "users_select_tenant", Table |-> <<"users">>, Action |-> "SELECT",
     Expression |-> <<"tenant_id", "=", "current_tenant_id()">>]

InitialPolicyRows == {<<>>, <<TenantPolicy>>}

\* no goroutine beside the one that answers
NoGoroutines ==
    /\ heap = <<>>
    /\ goroutines = <<>>
    /\ journal = [calls |-> <<>>, commits |-> <<>>]

\* no schema cache in use
NoSchemaCache ==
    /\ catalog = <<>>
    /\ cache = <<>>
    /\ mutex = [writer |-> 0, readers |-> {}]
    /\ clock = 0
    /\ calls = <<>>

InitialTables ==
    [t \in DOMAIN Columns |-> IF t = <<"users">> THEN {1, 2} ELSE {1}]

Srv == [databases |-> databases, policies |-> policies, tables |-> content]

InBounds(tables) == \A t \in DOMAIN tables : \A id \in tables[t] : id =< MaxId

Init ==
    /\ databases = NewManager
    /\ policyRows \in InitialPolicyRows
    /\ policies = LoadPolicies(policyRows)
    /\ functions = DefaultFunctions
    /\ content = InitialTables
    /\ last = Idle
    /\ NoGoroutines
    /\ NoSchemaCache

Answer(kind, req, resp) ==
    /\ InBounds(resp.tables)
    /\ last' = [kind |-> kind, req |-> req, resp |-> resp]
    /\ content' = resp.tables
    /\ UNCHANGED <<databases, policyRows, policies, functions, managerVars, cacheVars>>

ServeTableQuery ==
    /\ last = Idle
    /\ \E req \in TableRequests("GET", {NoBody}) : \E kvs \in Orders(req.query) :
          Answer("GET", req, handleTableQuery(req.db, req, kvs, Srv))

ServeTableCreate ==
    /\ last = Idle
    /\ \E req \in TableRequests("POST", Bodies) :
       \E kvs \in Orders(req.query) : \E data \in Orders(req.body.members) :
          Answer("POST", req, handleTableCreate(req.db, req, kvs, data, Srv))

ServeTableUpdate ==
    /\ last = Idle
    /\ \E req \in TableRequests("PATCH", Bodies) :
       \E kvs \in Orders(req.query) : \E data \in Orders(req.body.members) :
          Answer("PATCH", req, handleTableUpdate(req.db, req, kvs, data, Srv))

ServeTableDelete ==
    /\ last = Idle
    /\ \E req \in TableRequests("DELETE", {NoBody}) : \E kvs \in Orders(req.query) :
          Answer("DELETE", req, handleTableDelete(req.db, req, kvs, Srv))

ServeRPC ==
    /\ last = Idle
    /\ \E req \in RPCRequests : \E data \in Orders(req.body.members) :
          Answer("RPC", req, HandleRPC(functions, req, data, Srv))

\* CreateDefaultPolicies: the default rows are stored and the policies reloaded
CreateDefaultPolicies ==
    /\ last = Idle
    /\ policyRows' = insertOrIgnore(policyRows, DefaultPolicies)
    /\ policies' = LoadPolicies(policyRows')
    /\ policyRows' # policyRows
    /\ UNCHANGED <<databases, functions, content, last, managerVars, cacheVars>>

\* the functions that the embedding program registers while the server runs
CustomFunctions == {[Name |-> <<"bogus">>, Method |-> "GET"]}

\* RegisterCustomFunction: h.functions[fn.Name] = fn
RegisterCustomFunction(fn) ==
    /\ last = Idle
    /\ functions' = [n \in DOMAIN functions \cup {fn.Name} |->
                        IF n = fn.Name THEN fn.Method ELSE functions[n]]
    /\ functions' # functions
    /\ UNCHANGED <<databases, policyRows, policies, content, last, managerVars, cacheVars>>

\* the response is written and the server waits for the next request
Respond ==
    /\ last # Idle
    /\ last' = Idle
    /\ UNCHANGED <<databases, policyRows, policies, functions, content, managerVars, cacheVars>>

Next ==
    \/ ServeTableQuery
    \/ ServeTableCreate
    \/ ServeTableUpdate
    \/ ServeTableDelete
    \/ ServeRPC
    \/ CreateDefaultPolicies
    \/ \E fn \in CustomFunctions : RegisterCustomFunction(fn)
    \/ Respond

Spec == Init /\ [][Next]_vars

(***************************************************************************)
(* The compile pipeline alone: ParseQuery, the builder of the verb, then   *)
(* ApplyPolicies, on a wider set of query strings and without execution.   *)
(***************************************************************************)
\* the query parameters of a compiled request
CompiledParams ==
    {[key |-> <<"id">>, value |-> <<"eq", ".", "1">>],
     [key |-> <<"id">>, value |-> <<"in", ".", "(", "1", ",", "2", ")">>],
     [key |-> <<"name">>, value |-> <<"is", ".", "null">>],
     [key |-> <<"name">>, value |-> <<"like", ".", "a">>],
     [key |-> <<"or">>, value |-> <<"(", "id", ".", "eq", ".", "1", ",",
                                    "name", ".", "eq", ".", "a", ")">>],
     [key |-> <<"limit">>, value |-> <<"1">>],
     [key |-> <<"offset">>, value |-> <<"2">>],
     [key |-> <<"order">>, value |-> <<"id", ".", "desc">>],
     [key |-> <<"select">>, value |-> <<"name">>],
     [key |-> <<"id">>, value |-> <<"bogus", ".", "2">>],
     [key |-> <<"id", ".", "bogus">>, value |-> <<"2">>],
     [key |-> <<"and">>, value |-> <<"(", "id", ".", "bogus", ".", "2", ")">>],
     [key |-> <<"full", " ", "name">>, value |-> <<"eq", ".", "a">>]}

\* the query strings of at most n parameters key=value joined by &
QueryStrings(n) == UNION {[1..k -> CompiledParams] : k \in 0..n}

\* r.URL.Query(): a url.Values map holds, for a key, its values in the order of
\* the query string
Query(raw) ==
    {[key |-> k,
      values |-> With(SelectSeq(raw, LAMBDA p : p.key = k), LAMBDA ps :
                     [i \in DOMAIN ps |-> ps[i].value])] :
        k \in {raw[i].key : i \in DOMAIN raw}}

\* the pairs that the loop of ParseQuery reads: of each key, values[0]
firstValues(query) == {[key |-> p.key, value |-> p.values[1]] : p \in query}

CompiledTables == {<<"users">>, <<"products">>}

\* the AuthContext of a request without a token and of the valid tokens
Principals ==
    {AuthenticateRequest([authorization |-> a, query |-> {}, cookie |-> <<>>]).ctx :
        a \in {<<>>, Bearer \o tokUser, Bearer \o tokGuest, Bearer \o tokAdmin}}

InitCompile ==
    /\ databases = NewManager
    /\ policyRows \in InitialPolicyRows
                      \cup {insertOrIgnore(rows, DefaultPolicies) : rows \in InitialPolicyRows}
    /\ policies = LoadPolicies(policyRows)
    /\ functions = DefaultFunctions
    /\ content = InitialTables
    /\ last = Idle
    /\ NoGoroutines
    /\ NoSchemaCache

Compiled(verb, table, query, kvs, data, parsed, stmt) ==
    /\ last' = [kind |-> "built", verb |-> verb, table |-> table, query |-> query,
                kvs |-> kvs,
                data |-> data, parsed |-> parsed,
                stmt |-> IF parsed.err THEN NotBuilt ELSE stmt,
                authCtx |-> Unauthenticated, secured |-> NotBuilt]
    /\ UNCHANGED <<databases, policyRows, policies, functions, content, managerVars, cacheVars>>

CompileSelect ==
    /\ last = Idle
    /\ \E table \in CompiledTables, raw \in QueryStrings(MaxParams) :
       \E q \in {Query(raw)} : \E kvs \in Orders(firstValues(q)) :
       \E parsed \in {ParseQuery(<<"/", "main", "/">> \o table, kvs)} :
          Compiled("GET", table, q, kvs, <<>>, parsed, BuildSelectWithEmbedding(parsed.params))

CompileInsert ==
    /\ last = Idle
    /\ \E table \in CompiledTables, raw \in QueryStrings(MaxParams), b \in Bodies :
       \E q \in {Query(raw)} : \E kvs \in Orders(firstValues(q)), data \in Orders(b.members) :
       \E parsed \in {ParseQuery(<<"/", "main", "/">> \o table, kvs)} :
          /\ b.valid
          /\ Compiled("POST", table, q, kvs, data, parsed, BuildInsert(parsed.params.Table, data))

CompileUpdate ==
    /\ last = Idle
    /\ \E table \in CompiledTables, raw \in QueryStrings(MaxParams), b \in Bodies :
       \E q \in {Query(raw)} : \E kvs \in Orders(firstValues(q)), data \in Orders(b.members) :
       \E parsed \in {ParseQuery(<<"/", "main", "/">> \o table, kvs)} :
          /\ b.valid
          /\ Compiled("PATCH", table, q, kvs, data, parsed,
                      BuildUpdate(parsed.params.Table, data, parsed.params.Filters))

CompileDelete ==
    /\ last = Idle
    /\ \E table \in CompiledTables, raw \in QueryStrings(MaxParams) :
       \E q \in {Query(raw)} : \E kvs \in Orders(firstValues(q)) :
       \E parsed \in {ParseQuery(<<"/", "main", "/">> \o table, kvs)} :
          Compiled("DELETE", table, q, kvs, <<>>, parsed,
                   BuildDelete(parsed.params.Table, parsed.params.Filters))

\* ApplyPolicies on the built statement, for a principal
Secure ==
    /\ last # Idle
    /\ last.kind = "built"
    /\ ~last.stmt.err
    /\ \E authCtx \in Principals :
          last' = [last EXCEPT !.kind = "secured", !.authCtx = authCtx,
                               !.secured = ApplyPolicies(policies, last.stmt.sql,
                                                         last.parsed.params, authCtx)]
    /\ UNCHANGED <<databases, policyRows, policies, functions, content, managerVars, cacheVars>>

Discard ==
    /\ last # Idle
    /\ last' = Idle
    /\ UNCHANGED <<databases, policyRows, policies, functions, content, managerVars, cacheVars>>

NextCompile ==
    \/ CompileSelect
    \/ CompileInsert
    \/ CompileUpdate
    \/ CompileDelete
    \/ Secure
    \/ Discard

SpecCompile == InitCompile /\ [][NextCompile]_vars

(***************************************************************************)
(* The database manager under concurrent requests.  Every goroutine runs   *)
(* one table handler at a time, in the steps at which it meets the others: *)
(* GetDB under the read lock of the manager, the call of the executor on   *)
(* database.Writer, the end of the statement, the response.  Writer is a   *)
(* *sql.DB, a pool that gives every concurrent call a connection of its    *)
(* own; DetachDB holds the lock of the manager from the delete to the end  *)
(* of the deferred Close calls, and Close waits for the statements that    *)
(* have started.                                                           *)
(***************************************************************************)
\* the number of handler goroutines
MaxGoroutines == 2
\* the number of Database objects that AttachDB allocates in a run
MaxObjects == 3

Goroutines == 1..MaxGoroutines

\* the map of the manager as a handler reads it through its pointers
Deref(dbs, hp) == [n \in DOMAIN dbs |-> hp[dbs[n]]]

\* setupRoutes: the handler of the method, for the databases of the start
Handle(req, kvs, data, srv) ==
    CASE req.method = "GET" -> handleTableQuery(req.db, req, kvs, srv)
      [] req.method = "POST" -> handleTableCreate(req.db, req, kvs, data, srv)
      [] req.method = "PATCH" -> handleTableUpdate(req.db, req, kvs, data, srv)
      [] req.method = "DELETE" -> handleTableDelete(req.db, req, kvs, srv)

Request(method, db, table, authorization, query, body) ==
    [method |-> method, db |-> db, path |-> <<"/">> \o db \o <<"/">> \o table,
     authorization |-> authorization, cookie |-> <<>>, query |-> query, body |-> body]

\* the requests that meet: a write of main, a write of the read-only database,
\* and requests that their handler turns down before GetDB
ConcurrentRequests ==
    {Request("DELETE", <<"main">>, <<"users">>, <<>>,
             {[key |-> <<"id">>, value |-> <<"eq", ".", "1">>]}, NoBody),
     Request("POST", <<"main">>, <<"products">>, <<>>, {}, [valid |-> FALSE, members |-> {}]),
     Request("GET", <<"main">>, <<"products">>, Bearer \o tokForged, {}, NoBody),
     Request("DELETE", <<"archive">>, <<"users">>, <<>>,
             {[key |-> <<"id">>, value |-> <<"eq", ".", "1">>]}, NoBody)}

\* the databases that an administrator attaches while the server runs
Attachments ==
    {[Name |-> <<"main">>, Mode |-> "readwrite"], [Name |-> <<"archive">>, Mode |-> "readonly"]}

IsWrite(req) == req.method \in {"POST", "PATCH", "DELETE"}

\* what the client sees of a response
Outcome(resp) ==
    [status |-> resp.status, executed |-> resp.executed, panic |-> resp.panic,
     rowsAffected |-> resp.rowsAffected]

\* the state a handler reads when the manager holds the Databases dbs
SrvAt(dbs) == [databases |-> dbs, policies |-> policies, tables |-> content]

\* a goroutine is inside DetachDB and holds the lock of the manager
ManagerLocked == \E g \in Goroutines : goroutines[g].pc = "detaching"

Waiting == [pc |-> "idle"]

\* s without its element x
RECURSIVE Without(_, _)
Without(s, x) ==
    IF Len(s) = 0 THEN <<>>
    ELSE IF s[1] = x THEN Without(Tail(s), x)
    ELSE <<s[1]>> \o Without(Tail(s), x)

InitManager ==
    /\ heap = [i \in 1..Len(ConfigDatabases) |-> NewManager[ConfigDatabases[i].Name]]
    /\ databases = [n \in DOMAIN NewManager |->
                      CHOOSE i \in 1..Len(ConfigDatabases) : ConfigDatabases[i].Name = n]
    /\ goroutines = [g \in Goroutines |-> Waiting]
    /\ journal = [calls |-> <<>>, commits |-> <<>>]
    /\ policyRows = <<>>
    /\ policies = LoadPolicies(policyRows)
    /\ functions = DefaultFunctions
    /\ content = InitialTables
    /\ last = Idle
    /\ NoSchemaCache

\* a request arrives and its handler runs as far as GetDB: it answers at once
\* or goes on with the pointer that GetDB returned
Lookup(g) ==
    /\ goroutines[g].pc = "idle"
    /\ ~ManagerLocked
    /\ \E req \in ConcurrentRequests :
       \E kvs \in Orders(req.query) : \E data \in Orders(req.body.members) :
       \E resp \in {Handle(req, kvs, data, SrvAt(Deref(databases, heap)))} :
          goroutines' = [goroutines EXCEPT ![g] =
              IF resp.conn = "none"
              THEN [pc |-> "done", req |-> req, kvs |-> kvs, data |-> data, db |-> 0,
                    resp |-> Outcome(resp)]
              ELSE [pc |-> "holding", req |-> req, kvs |-> kvs, data |-> data,
                    db |-> databases[req.db]]]
    /\ UNCHANGED <<databases, policyRows, policies, functions, content, last, heap,
                   journal, cacheVars>>

\* the handler calls the executor on database.Writer: the statement starts on
\* a connection of the pool, unless the Writer is nil or closed
Begin(g) ==
    /\ goroutines[g].pc = "holding"
    /\ \E c \in {goroutines[g]} :
          IF heap[c.db].Writer = "open"
          THEN /\ goroutines' = [goroutines EXCEPT ![g].pc = "executing"]
               /\ journal' = IF IsWrite(c.req)
                             THEN [journal EXCEPT !.calls = Append(@, g)]
                             ELSE journal
          ELSE /\ goroutines' = [goroutines EXCEPT ![g] =
                     [pc |-> "done", req |-> c.req, kvs |-> c.kvs, data |-> c.data,
                      db |-> 0,
                      resp |-> Outcome(Handle(c.req, c.kvs, c.data,
                                              SrvAt([n \in {c.req.db} |-> heap[c.db]])))]]
               /\ journal' = journal
    /\ UNCHANGED <<databases, policyRows, policies, functions, content, last, heap,
                   cacheVars>>

\* the statement ends: SQLite applies it to the tables.  A statement that has
\* started runs to its end on the connection it was given
Commit(g) ==
    /\ goroutines[g].pc = "executing"
    /\ \E c \in {goroutines[g]} :
       \E resp \in {Handle(c.req, c.kvs, c.data,
                           SrvAt([n \in {c.req.db} |-> [heap[c.db] EXCEPT !.Writer = "open"]]))} :
          /\ InBounds(resp.tables)
          /\ content' = resp.tables
          /\ goroutines' = [goroutines EXCEPT ![g] =
                [pc |-> "done", req |-> c.req, kvs |-> c.kvs, data |-> c.data,
                 db |-> 0, resp |-> Outcome(resp)]]
          /\ journal' = IF IsWrite(c.req)
                        THEN [journal EXCEPT !.commits = Append(@, g)]
                        ELSE journal
    /\ UNCHANGED <<databases, policyRows, policies, functions, last, heap, cacheVars>>

\* the response is written and the goroutine ends
Finish(g) ==
    /\ goroutines[g].pc = "done"
    /\ goroutines' = [goroutines EXCEPT ![g] = Waiting]
    /\ journal' = [calls |-> Without(journal.calls, g),
                   commits |-> Without(journal.commits, g)]
    /\ UNCHANGED <<databases, policyRows, policies, functions, content, last, heap,
                   cacheVars>>

\* DetachDB takes the lock, deletes the name and closes the connections
Detach(g, name) ==
    /\ goroutines[g].pc = "idle"
    /\ ~ManagerLocked
    /\ \E r \in {DetachDB(databases, heap, name)} :
          /\ databases' = r.dbs
          /\ heap' = r.heap
    /\ goroutines' = [goroutines EXCEPT ![g] =
          [pc |-> "detaching", name |-> name,
           db |-> IF name \in DOMAIN databases THEN databases[name] ELSE 0]]
    /\ UNCHANGED <<policyRows, policies, functions, content, last, journal, cacheVars>>

\* the deferred Close calls end when no statement runs on the connections, and
\* DetachDB returns
DetachReturn(g) ==
    /\ goroutines[g].pc = "detaching"
    /\ \A h \in Goroutines :
          ~(goroutines[h].pc = "executing" /\ goroutines[h].db = goroutines[g].db)
    /\ goroutines' = [goroutines EXCEPT ![g] = Waiting]
    /\ UNCHANGED <<databases, policyRows, policies, functions, content, last, heap,
                   journal, cacheVars>>

\* AttachDB allocates a Database and stores its pointer under the name
Attach(name, mode) ==
    /\ ~ManagerLocked
    /\ Len(heap) < MaxObjects
    /\ \E r \in {AttachDB(Deref(databases, heap), name, mode, TRUE)} :
          /\ ~r.err
          /\ heap' = Append(heap, r.dbs[name])
          /\ databases' = [n \in DOMAIN databases \cup {name} |->
                             IF n = name THEN Len(heap) + 1 ELSE databases[n]]
    /\ UNCHANGED <<policyRows, policies, functions, content, last, goroutines, journal,
                   cacheVars>>

NextManager ==
    \/ \E g \in Goroutines : Lookup(g)
    \/ \E g \in Goroutines : Begin(g)
    \/ \E g \in Goroutines : Commit(g)
    \/ \E g \in Goroutines : Finish(g)
    \/ \E g \in Goroutines : \E name \in {<<"main">>, <<"archive">>} : Detach(g, name)
    \/ \E g \in Goroutines : DetachReturn(g)
    \/ \E cfg \in Attachments : Attach(cfg.Name, cfg.Mode)

SpecManager == InitManager /\ [][NextManager]_vars

(***************************************************************************)
(* engine: the schema cache.  An entry of the cache is the address of a    *)
(* SchemaInfo and the SchemaInfo at that address; heap records, for every  *)
(* address given out, whether the map has lost the SchemaInfo since.  The  *)
(* callers GetSchema, InvalidateCache and ClearCache run concurrently and  *)
(* meet at the RWMutex.  The database answers a pragma with the rows of    *)
(* the catalog, or fails: at the query, at the Scan of a row, or in        *)
(* rows.Next() after some rows.                                            *)
(***************************************************************************)
\* the TTL of router.New (5 minutes) in ticks of the clock
TTL == 2
\* the last tick of the clock
MaxClock == 2
\* the number of SchemaInfo objects that GetSchema allocates in a run
MaxEntries == 2

\* the tables that callers ask for: one of the database, one it does not have
SchemaTables == {<<"users">>, <<"nosuch">>}

\* what the three pragmas return for the tables of the database
InitialCatalog ==
    [t \in DOMAIN Columns |->
        [table_info |-> IF t = <<"users">>
                        THEN <<[name |-> <<"id">>, pk |-> 1], [name |-> <<"name">>, pk |-> 0],
                               [name |-> <<"tenant_id">>, pk |-> 0]>>
                        ELSE <<[name |-> <<"id">>, pk |-> 1], [name |-> <<"name">>, pk |-> 0]>>,
         foreign_key_list |-> <<>>,
         index_list |-> <<[name |-> <<"sqlite_autoindex_">> \o t \o <<"_1">>, origin |-> "pk"],
                          [name |-> <<"idx_">> \o t \o <<"_name">>, origin |-> "c"]>>]]

\* the rows of a pragma: none for a table that the database does not have
pragma(db, what, tableName) ==
    IF tableName \in DOMAIN db THEN db[tableName][what] ELSE <<>>

NoFault == [stage |-> "none", kind |-> "none", after |-> 0]

\* what can go wrong while a schema is loaded: the pragma that fails and how
Faults ==
    {NoFault}
    \cup {[stage |-> s, kind |-> "query", after |-> 0] :
            s \in {"table_info", "foreign_key_list", "index_list"}}
    \cup {[stage |-> "table_info", kind |-> k, after |-> 1] : k \in {"scan", "iteration"}}

\* the fault strikes the pragma what, which has the rows rows
Strikes(fault, what, rows) ==
    /\ fault.stage = what
    /\ fault.kind = "query" \/ Len(rows) > fault.after

\* sc.db.Query and the loop over rows.Next() of a load function: the rows
\* that were scanned, and the error that the function returns.  The loop
\* ends when rows.Next() is false and rows.Err() is not read
scanRows(rows, what, fault) ==
    IF ~Strikes(fault, what, rows) THEN [err |-> FALSE, list |-> rows]
    ELSE IF fault.kind \in {"query", "scan"} THEN [err |-> TRUE, list |-> <<>>]
    ELSE [err |-> FALSE, list |-> SubSeq(rows, 1, fault.after)]

loadColumns(db, tableName, fault) ==
    scanRows(pragma(db, "table_info", tableName), "table_info", fault)

loadForeignKeys(db, tableName, fault) ==
    scanRows(pragma(db, "foreign_key_list", tableName), "foreign_key_list", fault)

\* loadIndexes leaves out the index of the primary key
loadIndexes(db, tableName, fault) ==
    With(scanRows(pragma(db, "index_list", tableName), "index_list", fault), LAMBDA r :
        [err |-> r.err, list |-> SelectSeq(r.list, LAMBDA row : row.origin # "pk")])

\* loadSchemaFromDB at the time now: the SchemaInfo, or the first error
loadSchemaFromDB(db, tableName, now, fault) ==
    With(loadColumns(db, tableName, fault), LAMBDA columns :
    IF columns.err THEN [err |-> TRUE]
    ELSE
    With(loadForeignKeys(db, tableName, fault), LAMBDA foreignKeys :
    IF foreignKeys.err THEN [err |-> TRUE]
    ELSE
    With(loadIndexes(db, tableName, fault), LAMBDA indexes :
    IF indexes.err THEN [err |-> TRUE]
    ELSE [err |-> FALSE,
          schema |-> [TableName |-> tableName, Columns |-> columns.list,
                      ForeignKeys |-> foreignKeys.list, Indexes |-> indexes.list,
                      LastUpdated |-> now]])))

\* GetSchema: time.Since(cached.LastUpdated) < sc.ttl
freshUpToTTL(schema, now) == now - schema.LastUpdated =< TTL

fresh(schema, now) == now - schema.LastUpdated < TTL

\* GetSchema: the table has an entry and the entry is still valid
cached(cch, tableName, now) ==
    tableName \in DOMAIN cch /\ fresh(cch[tableName].info, now)

\* InvalidateCache: delete(sc.cache, tableName)
InvalidateCacheKeepsEntry(cch, tableName) == cch

InvalidateCache(cch, tableName) == [t \in DOMAIN cch \ {tableName} |-> cch[t]]

\* ClearCache: sc.cache = make(map[string]*SchemaInfo)
ClearCache(cch) == <<>>

\* the entries that the map cch holds for the tables are marked in hp: the
\* map is about to lose them, to an invalidation or to a newer entry
Evict(hp, cch, tables) ==
    [a \in DOMAIN hp |->
        IF \E t \in tables \cap DOMAIN cch : cch[t].addr = a
        THEN [hp[a] EXCEPT !.evicted = TRUE] ELSE hp[a]]

\* an address that holds no SchemaInfo
Collected == [TableName |-> <<>>, evicted |-> TRUE]

\* the call cls[g] has returned the SchemaInfo at address a to its caller
Referenced(cls, a) ==
    \E g \in DOMAIN cls :
        cls[g].pc = "returned" /\ ~cls[g].ret.err /\ cls[g].ret.entry = a

\* the garbage collector: a SchemaInfo that neither the map nor a caller
\* holds is gone
Collect(hp, cls) ==
    [a \in DOMAIN hp |-> IF hp[a].evicted /\ ~Referenced(cls, a) THEN Collected ELSE hp[a]]

\* the addresses at which a new SchemaInfo may be allocated
FreeAddresses(hp) == {a \in DOMAIN hp : hp[a] = Collected}

Unlocked == [writer |-> 0, readers |-> {}]

\* the result of a call of GetSchema: the SchemaInfo by its address, or the
\* error
Returned(err, entry) == [pc |-> "returned", ret |-> [err |-> err, entry |-> entry]]

InitCache ==
    /\ databases = NewManager
    /\ policyRows = <<>>
    /\ policies = LoadPolicies(policyRows)
    /\ functions = DefaultFunctions
    /\ content = InitialTables
    /\ last = Idle
    /\ heap = [a \in 1..MaxEntries |-> Collected]
    /\ goroutines = <<>>
    /\ journal = [calls |-> <<>>, commits |-> <<>>]
    /\ catalog = InitialCatalog
    /\ cache = <<>>
    /\ mutex = Unlocked
    /\ clock = 0
    /\ calls = [g \in Goroutines |-> Waiting]

\* GetSchema starts: sc.mutex.RLock()
RLock(g, tableName) ==
    /\ calls[g].pc = "idle"
    /\ mutex.writer = 0
    /\ mutex' = [mutex EXCEPT !.readers = @ \cup {g}]
    /\ calls' = [calls EXCEPT ![g] = [pc |-> "rlocked", table |-> tableName]]
    /\ UNCHANGED <<databases, policyRows, policies, functions, content, last, managerVars,
                   catalog, cache, clock>>

\* the check under the read lock, then RUnlock: the entry is returned, or the
\* call goes on to the write lock
ReadCheck(g) ==
    /\ calls[g].pc = "rlocked"
    /\ mutex' = [mutex EXCEPT !.readers = @ \ {g}]
    /\ \E c \in {calls[g]} :
          calls' = [calls EXCEPT ![g] =
              IF cached(cache, c.table, clock)
              THEN Returned(FALSE, cache[c.table].addr)
              ELSE [pc |-> "waiting", table |-> c.table]]
    /\ UNCHANGED <<databases, policyRows, policies, functions, content, last, managerVars,
                   catalog, cache, clock>>

\* sc.mutex.Lock() and the second check: the entry that another call stored
\* meanwhile is returned (and the deferred Unlock runs), or the call loads
Lock(g) ==
    /\ calls[g].pc = "waiting"
    /\ mutex = Unlocked
    /\ \E c \in {calls[g]} :
          IF cached(cache, c.table, clock)
          THEN /\ calls' = [calls EXCEPT ![g] =
                               Returned(FALSE, cache[c.table].addr)]
               /\ mutex' = mutex
          ELSE /\ calls' = [calls EXCEPT ![g] = [pc |-> "loading", table |-> c.table]]
               /\ mutex' = [mutex EXCEPT !.writer = g]
    /\ UNCHANGED <<databases, policyRows, policies, functions, content, last, managerVars,
                   catalog, cache, clock>>

\* loadSchemaFromDB under the write lock, then the store in the map, or the
\* error; the deferred Unlock runs
Load(g) ==
    /\ calls[g].pc = "loading"
    /\ mutex' = Unlocked
    /\ \E c \in {calls[g]} : \E fault \in Faults :
       \E r \in {loadSchemaFromDB(catalog, c.table, clock, fault)} :
          IF r.err
          THEN /\ calls' = [calls EXCEPT ![g] = Returned(TRUE, 0)]
               /\ UNCHANGED <<heap, cache>>
          ELSE \E a \in FreeAddresses(heap) :
               /\ \A b \in FreeAddresses(heap) : a =< b
               /\ cache' = [t \in DOMAIN cache \cup {c.table} |->
                              IF t = c.table THEN [addr |-> a, info |-> r.schema]
                              ELSE cache[t]]
               /\ calls' = [calls EXCEPT ![g] = Returned(FALSE, a)]
               /\ heap' = Collect([Evict(heap, cache, {c.table}) EXCEPT
                                      ![a] = [TableName |-> c.table, evicted |-> FALSE]],
                                  calls')
    /\ UNCHANGED <<databases, policyRows, policies, functions, content, last, goroutines,
                   journal, catalog, clock>>

\* the caller has its result
Return(g) ==
    /\ calls[g].pc = "returned"
    /\ calls' = [calls EXCEPT ![g] = Waiting]
    /\ heap' = Collect(heap, calls')
    /\ UNCHANGED <<databases, policyRows, policies, functions, content, last, goroutines,
                   journal, catalog, cache, mutex, clock>>

\* InvalidateCache, from Lock to the deferred Unlock
Invalidate(g, tableName) ==
    /\ calls[g].pc = "idle"
    /\ mutex = Unlocked
    /\ cache' = InvalidateCache(cache, tableName)
    /\ heap' = Collect(Evict(heap, cache, {tableName}), calls)
    /\ cache' # cache \/ heap' # heap
    /\ UNCHANGED <<databases, policyRows, policies, functions, content, last, goroutines,
                   journal, catalog, mutex, clock, calls>>

\* ClearCache, from Lock to the deferred Unlock
Clear(g) ==
    /\ calls[g].pc = "idle"
    /\ mutex = Unlocked
    /\ cache' = ClearCache(cache)
    /\ heap' = Collect(Evict(heap, cache, DOMAIN cache), calls)
    /\ cache' # cache
    /\ UNCHANGED <<databases, policyRows, policies, functions, content, last, goroutines,
                   journal, catalog, mutex, clock, calls>>

\* table requests on a table that the database does not have
AbsentTableRequests ==
    {Request("GET", <<"main">>, <<"nosuch">>, Bearer \o tokAdmin, {}, NoBody)}

\* the server answers a table request
ServeTable ==
    /\ last = Idle
    /\ \E req \in AbsentTableRequests :
       \E kvs \in Orders(req.query) : \E data \in Orders(req.body.members) :
          Answer(req.method, req, Handle(req, kvs, data, Srv))

\* time passes
Tick ==
    /\ clock < MaxClock
    /\ clock' = clock + 1
    /\ UNCHANGED <<databases, policyRows, policies, functions, content, last, managerVars,
                   catalog, cache, mutex, calls>>

NextCache ==
    \/ \E g \in Goroutines : \E tableName \in SchemaTables : RLock(g, tableName)
    \/ \E g \in Goroutines : ReadCheck(g)
    \/ \E g \in Goroutines : Lock(g)
    \/ \E g \in Goroutines : Load(g)
    \/ \E g \in Goroutines : Return(g)
    \/ \E g \in Goroutines : \E tableName \in SchemaTables : Invalidate(g, tableName)
    \/ \E g \in Goroutines : Clear(g)
    \/ Tick
    \/ ServeTable
    \/ Respond

SpecCache == InitCache /\ [][NextCache]_vars

(***************************************************************************)
(* Properties of the compile pipeline                                      *)
(***************************************************************************)
\* the characters of a value that are not data
ValuePunctuation == {".", ",", "(", ")", " "}

Atoms(value) == {value[i] : i \in DOMAIN value} \ ValuePunctuation

\* the literals that a parsed filter carries: none for the null sentinel, the
\* elements of an in-list, the value otherwise
FilterLiterals(filter) ==
    IF filter.Operator \in {OpIs, OpNot} /\ ToLower(filter.Value) = <<"null">> THEN <<>>
    ELSE IF filter.Operator = OpIn
    THEN With(Split(filter.Value, ","), LAMBDA values :
             [i \in DOMAIN values |-> TrimSpace(values[i])])
    ELSE <<filter.Value>>

RECURSIVE Flatten(_)
Flatten(seqs) == IF Len(seqs) = 0 THEN <<>> ELSE seqs[1] \o Flatten(Tail(seqs))

FiltersLiterals(filters) == Flatten([i \in DOMAIN filters |-> FilterLiterals(filters[i])])

GroupsLiterals(conditions) ==
    Flatten([i \in DOMAIN conditions |-> FiltersLiterals(conditions[i].Filters)])

WindowLiterals(params) ==
    (IF params.Limit.set THEN <<Itoa(params.Limit.n)>> ELSE <<>>) \o
    (IF params.Offset.set THEN <<Itoa(params.Offset.n)>> ELSE <<>>)

BodyLiterals(data) == [i \in DOMAIN data |-> data[i].value]

\* the literal values of the request that the statement of its verb uses, in
\* the order of their places in the statement
StatementLiterals(c) ==
    CASE c.verb = "GET" -> FiltersLiterals(c.parsed.params.Filters)
                           \o GroupsLiterals(c.parsed.params.Conditions)
                           \o WindowLiterals(c.parsed.params)
      [] c.verb = "POST" -> BodyLiterals(c.data)
      [] c.verb = "PATCH" -> BodyLiterals(c.data) \o FiltersLiterals(c.parsed.params.Filters)
      [] OTHER -> FiltersLiterals(c.parsed.params.Filters)

\* every literal value of the request, used by the statement or not
RequestLiterals(c) ==
    FiltersLiterals(c.parsed.params.Filters) \o GroupsLiterals(c.parsed.params.Conditions)
    \o WindowLiterals(c.parsed.params) \o BodyLiterals(c.data)

RequestAtoms(c) ==
    With(RequestLiterals(c), LAMBDA literals :
        UNION {Atoms(literals[i]) : i \in DOMAIN literals})

IsBuilt == last.kind \in {"built", "secured"} /\ ~last.stmt.err

\* C1: in every statement that BuildSelect, BuildInsert, BuildUpdate and
\* BuildDelete produce, no literal value of the request (filter value, in-list
\* element, group value, limit, offset, body value) occurs in the SQL text; the
\* text has one ? per parameter and the parameter vector is exactly the literals
\* in the order of their places.  The null sentinel of is/not is no literal: it
\* renders IS [NOT] NULL.
C1_ValuesAreBound ==
    IsBuilt =>
        /\ \A atom \in RequestAtoms(last) : ~Contains(last.stmt.sql, atom)
        /\ CountTok(last.stmt.sql, "?") = Len(last.stmt.args)
        /\ last.stmt.args = StatementLiterals(last)

\* an UPDATE built from a body of two members and an in-list filter
C1_Witness ==
    /\ IsBuilt
    /\ last.verb = "PATCH"
    /\ Contains(last.stmt.sql, "IN")
    /\ Len(last.stmt.args) = 4

IsSecuredSelect ==
    /\ last.kind = "secured"
    /\ last.verb = "GET"
    /\ ~(last.authCtx.Authenticated /\ last.authCtx.Role = <<"admin">>)
    /\ Len(getPoliciesForTable(policies, last.table, "SELECT")) > 0

\* P1 OR ... OR Pn of the policies that apply to the secured SELECT
PolicyPredicate ==
    securityConditions(getPoliciesForTable(policies, last.table, "SELECT"), last.authCtx).sql

\* the statements that put the predicate P inside the WHERE of the statement
\* sql, before its ORDER BY, LIMIT and OFFSET; brackets around the original
\* condition are optional
ConjoinedForms(sql, P) ==
    With(Index(sql, "WHERE"), LAMBDA whereIdx :
    With(IndexAny(sql, {"ORDER BY", "LIMIT", "OFFSET"}), LAMBDA t :
    With(IF t = 0 THEN Len(sql) + 1 ELSE t, LAMBDA tailIdx :
    With(SubSeq(sql, 1, (IF whereIdx = 0 THEN tailIdx ELSE whereIdx) - 1), LAMBDA head :
    With(IF whereIdx = 0 THEN <<>> ELSE SubSeq(sql, whereIdx + 1, tailIdx - 1), LAMBDA cond :
    With(SubSeq(sql, tailIdx, Len(sql)), LAMBDA tail :
        IF cond = <<>>
        THEN {head \o <<"WHERE">> \o P \o tail,
              head \o <<"WHERE", "(">> \o P \o <<")">> \o tail}
        ELSE {head \o <<"WHERE">> \o cond \o <<"AND", "(">> \o P \o <<")">> \o tail,
              head \o <<"WHERE", "(">> \o cond \o <<")", "AND", "(">> \o P \o <<")">>
                   \o tail}))))))

\* C4: for a SELECT with applicable policies and a non-admin principal, the
\* statement of ApplyPolicies has the WHERE condition (original) AND (P1 OR ...
\* OR Pn), and ORDER BY, LIMIT and OFFSET follow the complete WHERE, whatever
\* clauses the input statement has.
C4_PolicyInsideWhere ==
    IsSecuredSelect => last.secured.sql \in ConjoinedForms(last.stmt.sql, PolicyPredicate)

\* the attributes of a principal as they would stand in SQL text
PrincipalAtoms(authCtx) ==
    IF authCtx.Authenticated
    THEN Atoms(authCtx.UserID) \cup Atoms(authCtx.Role) \cup Atoms(authCtx.TenantID)
    ELSE {"anonymous"}

PrincipalFunctions == {"current_user_id()", "current_role()", "current_tenant_id()"}

\* C5: when ApplyPolicies applies a policy expression, each principal function
\* of the expression is a ? placeholder with a bound parameter, and no attribute
\* of the principal stands in the SQL text.
C5_PrincipalIsBound ==
    (last.kind = "secured" /\ last.secured.sql # last.stmt.sql) =>
        /\ \A atom \in PrincipalAtoms(last.authCtx) : ~Contains(last.secured.sql, atom)
        /\ CountTok(last.secured.sql, "?") = Len(last.stmt.args \o last.secured.args)

(***************************************************************************)
(* Properties of the server                                                *)
(***************************************************************************)
IsTableRequest == last.kind \in {"GET", "POST", "PATCH", "DELETE"}

\* the query parameters that are filters: all but the window, the shape of
\* the result and the token
FilterParams(req) ==
    {kv \in req.query :
        kv.key \notin {<<"limit">>, <<"offset">>, <<"order">>, <<"select">>, <<"token">>}}

\* C2: a PATCH or DELETE request without a filter parameter is answered 400
\* (validation, missing_where) and nothing is executed; no UPDATE or DELETE
\* statement without WHERE is ever built or executed.
C2_WriteNeedsWhere ==
    last.kind \in {"PATCH", "DELETE"} =>
        /\ FilterParams(last.req) = {} => (last.resp.status = 400 /\ ~last.resp.executed)
        /\ last.resp.executed => Contains(last.resp.sql, "WHERE")

\* the principal that the token of the request stands for
PrincipalOf(req) == AuthenticateRequest(req)

IsAdmin(authCtx) == authCtx.Authenticated /\ authCtx.Role = <<"admin">>

\* whether the policies of the table and the action let the principal touch
\* the row id
PolicyAllows(table, action, authCtx, id) ==
    With(getPoliciesForTable(policies, table, action), LAMBDA applicable :
    With(securityConditions(applicable, authCtx), LAMBDA P :
        \/ Len(applicable) = 0
        \/ sqlOr([toks |-> P.sql, args |-> P.args, cols |-> Columns[table], id |-> id],
                 1, 1).v = "T"))

\* C3: the policies of the action are applied to PATCH (UPDATE) and DELETE: a
\* principal that is no admin changes no row that the policies exclude; when
\* they exclude every row, the request affects zero rows.
C3_PoliciesGuardWrites ==
    last.kind \in {"PATCH", "DELETE"} =>
        With(extractTableFromPath(last.req.path), LAMBDA table :
        With(IF last.kind = "PATCH" THEN "UPDATE" ELSE "DELETE", LAMBDA action :
        With(PrincipalOf(last.req), LAMBDA who :
            (/\ table \in DOMAIN Columns
             /\ ~who.err
             /\ ~IsAdmin(who.ctx)
             /\ \A id \in 1..MaxId : ~PolicyAllows(table, action, who.ctx, id))
            => last.resp.rowsAffected = 0)))

\* the same request without its token
WithoutToken(req) ==
    [req EXCEPT !.authorization = <<>>, !.cookie = <<>>,
                !.query = {kv \in @ : kv.key # <<"token">>}]

Range(seq) == {seq[i] : i \in DOMAIN seq}

\* C6: when an authenticated principal issues a SELECT and the request is
\* issued again without the token, the anonymous result is a subset of the
\* authenticated one, and the anonymous caller is granted nothing (table gate
\* or policy filter) that the authenticated caller is denied.
C6_AnonymousIsNarrower ==
    (/\ last.kind = "GET"
     /\ last.resp.authCtx.Authenticated
     /\ last.resp.status \in {200, 403})
    => \A kvs \in Orders(WithoutToken(last.req).query) :
          \A anon \in {handleTableQuery(last.req.db, WithoutToken(last.req), kvs, Srv)} :
             anon.status = 200 =>
                 /\ last.resp.status = 200
                 /\ Range(anon.rows) \subseteq Range(last.resp.rows)

\* C7: a request of any verb or an RPC that carries, in any of the three
\* locations, a token that does not validate is answered 401 and no statement
\* is executed for it.
C7_InvalidTokenIsRejected ==
    (/\ last.kind # "idle"
     /\ ExtractTokenFromRequest(last.req) # <<>>
     /\ ValidateToken(ExtractTokenFromRequest(last.req)).err)
    => (last.resp.status = 401 /\ ~last.resp.executed)

\* C8: a request without a token in any location yields, without error, the
\* anonymous principal: authenticated is false and the role is "anonymous";
\* the policy evaluation for it sees the role 'anonymous'.
C8_NoTokenIsAnonymous ==
    (last.kind # "idle" /\ ExtractTokenFromRequest(last.req) = <<>>)
    => \A who \in {AuthenticateRequest(last.req)} :
           /\ ~who.err
           /\ ~who.ctx.Authenticated
           /\ who.ctx.Role = <<"anonymous">>
           /\ evaluatePolicyExpression(<<"current_role()">>, who.ctx).sql
                  = <<SQ, "anonymous", SQ>>

\* the alg of the header of a token, "" for a malformed token
HeaderAlg(tokenString) ==
    With(IF HasPrefix(tokenString, Bearer)
         THEN SubSeq(tokenString, 3, Len(tokenString)) ELSE tokenString, LAMBDA compact :
        IF Len(compact) > 0 /\ compact[1] \in DOMAIN AlgOf THEN AlgOf[compact[1]] ELSE "")

\* C9: a token whose header algorithm is not the configured one is rejected
\* with an auth error, even when its signature verifies with the secret.
C9_AlgorithmAllowList ==
    (/\ last.kind # "idle"
     /\ ExtractTokenFromRequest(last.req) # <<>>
     /\ HeaderAlg(ExtractTokenFromRequest(last.req)) # JWTAlgorithm)
    => /\ AuthenticateRequest(last.req).err
       /\ last.resp.authCalled => last.resp.status = 401

\* C10: on a database attached read-only no request uses the writer
\* connection; a write is answered with a validation error and a read is
\* served from a reader connection.
C10_ReadOnlyNeverUsesWriter ==
    (IsTableRequest /\ databases[last.req.db].mode = "readonly")
    => /\ last.resp.conn # "Writer"
       /\ last.kind # "GET" => last.resp.status = 400
       /\ (last.kind = "GET" /\ last.resp.executed) => last.resp.conn = "Reader"

(***************************************************************************)
(* Properties of the database manager under concurrent requests            *)
(***************************************************************************)
\* the write statements that have started on the writer and have not ended
WritesInProgress ==
    {g \in Goroutines : goroutines[g].pc = "executing" /\ IsWrite(goroutines[g].req)}

\* C11: under concurrent POST, PATCH and DELETE requests the writer is held
\* exclusively for the duration of each write: at most one write statement is
\* in progress at any time, and the writes commit in the order in which they
\* were given the writer
C11_WritesAreTotallyOrdered ==
    /\ Cardinality(WritesInProgress) =< 1
    /\ \A i, j \in DOMAIN journal.commits :
          i < j => Index(journal.calls, journal.commits[i])
                     < Index(journal.calls, journal.commits[j])

\* DetachDB has closed the connections of the Database
IsClosed(db) == \E i \in DOMAIN db.Readers : db.Readers[i] = "closed"

\* C12: DetachDB of a database that is servicing requests does not close its
\* connections until every request that obtained the handle before the detach
\* has finished: no request holds, or runs a statement on, a handle whose
\* connections DetachDB has closed
C12_DetachWaitsForRequests ==
    \A g \in Goroutines :
        goroutines[g].pc \in {"holding", "executing"}
            => ~IsClosed(heap[goroutines[g].db])

\* DetachDB(name) has returned and AttachDB has not stored the name since: the
\* Database allocated last under the name is closed, and no goroutine is
\* inside DetachDB
Detached(name) ==
    /\ ~ManagerLocked
    /\ \E a \in DOMAIN heap :
          /\ heap[a].name = name
          /\ IsClosed(heap[a])
          /\ \A b \in DOMAIN heap : b > a => heap[b].name # name

\* goroutine g takes a request in this step
Arrives(g) ==
    goroutines[g].pc = "idle" /\ goroutines'[g].pc \in {"holding", "executing", "done"}

\* in a step in which goroutine g detaches a name, the pointers stored under
\* the other names and the Databases they point to stay as they are
OthersUntouched(g) ==
    (goroutines[g].pc = "idle" /\ goroutines'[g].pc = "detaching")
        => \A n \in DOMAIN databases \ {goroutines'[g].name} :
              /\ n \in DOMAIN databases'
              /\ databases'[n] = databases[n]
              /\ heap'[databases[n]] = heap[databases[n]]

\* a handler turned the request down before it called GetDB
TurnedDownBefore(req, status) ==
    \/ req.method = "GET" /\ status \in {400, 401, 403}
    \/ req.method \in {"POST", "PATCH"} /\ ~req.body.valid /\ status = 400

\* C13 as stated: once DetachDB(name) has returned, every later GetDB(name),
\* and every later table request routed to that name, fails with not_found
\* (HTTP 404) until the name is attached again; detaching one name leaves the
\* handles of all other names unchanged
C13_DetachedIsNotFound ==
    [][\A g \in Goroutines :
          /\ OthersUntouched(g)
          /\ \A name \in {<<"main">>, <<"archive">>} :
                Detached(name) => GetDB(Deref(databases, heap), name).err
          /\ (Arrives(g) /\ Detached(goroutines'[g].req.db))
                => /\ goroutines'[g].pc = "done"
                   /\ goroutines'[g].resp.status = 404]_vars

\* C13 amended: once DetachDB(name) has returned, every later GetDB(name) fails
\* until the name is attached again, and no later table request routed to the
\* name reaches a connection: it is answered 404, unless its handler turns it
\* down before GetDB (GET: 401, 400, 403; POST and PATCH: 400 for a body that
\* does not decode); detaching one name leaves the handles of all other names
\* unchanged
C13_DetachedIsNeverServed ==
    [][\A g \in Goroutines :
          /\ OthersUntouched(g)
          /\ \A name \in {<<"main">>, <<"archive">>} :
                Detached(name) => GetDB(Deref(databases, heap), name).err
          /\ (Arrives(g) /\ Detached(goroutines'[g].req.db))
                => /\ goroutines'[g].pc = "done"
                   /\ ~goroutines'[g].resp.executed
                   /\ \/ goroutines'[g].resp.status = 404
                      \/ TurnedDownBefore(goroutines'[g].req,
                                          goroutines'[g].resp.status)]_vars

\* a request routed to a detached name has been answered 404 while another
\* name is still attached
C13_Witness ==
    \E g \in Goroutines :
        /\ goroutines[g].pc = "done"
        /\ goroutines[g].resp.status = 404
        /\ Detached(goroutines[g].req.db)
        /\ DOMAIN databases # {}

(***************************************************************************)
(* Properties of the schema cache                                          *)
(***************************************************************************)
\* the call of GetSchema of goroutine g returns in this step
Returns(g) ==
    calls[g].pc \in {"rlocked", "waiting", "loading"} /\ calls'[g].pc = "returned"

\* C14: a request or schema lookup that names a table absent from the database
\* yields not_found: the table handlers answer HTTP 404, and GetSchema returns
\* an error for it and stores no cache entry for the unknown table
C14_AbsentTableIsNotFound ==
    [][/\ (last # Idle /\ extractTableFromPath(last.req.path) \notin DOMAIN catalog)
              => last.resp.status = 404
       /\ \A g \in Goroutines :
             (Returns(g) /\ calls[g].table \notin DOMAIN catalog)
                 => /\ calls'[g].ret.err
                    /\ calls[g].table \notin DOMAIN cache']_vars

(***************************************************************************)
(* Unknown filter operators                                                *)
(***************************************************************************)
\* the operators that a request may use
KnownOperators ==
    {<<"eq">>, <<"neq">>, <<"gt">>, <<"gte">>, <<"lt">>, <<"lte">>, <<"like">>,
     <<"ilike">>, <<"in">>, <<"is">>}

\* the operators of the clauses col.op.value of a group and=(...) or or=(...)
ClauseOperators(value) ==
    With(Split(Trim(value, {"(", ")"}), ","), LAMBDA clauses :
        {Split(clauses[i], ".")[2] :
            i \in {j \in DOMAIN clauses : Len(Split(clauses[j], ".")) >= 2}})

\* the operators of the atomic filters that the parameter key=value holds
FilterOperators(key, value) ==
    IF key \in {<<"and">>, <<"or">>} THEN ClauseOperators(value)
    ELSE IF key \in {<<"select">>, <<"order">>, <<"limit">>, <<"offset">>} THEN {}
    ELSE IF Contains(key, ".") THEN {Split(key, ".")[2]}
    ELSE {Split(value, ".")[1]}

\* the query holds an atomic filter whose operator is unknown
HasUnknownOperator(query) ==
    \E p \in query : \E i \in DOMAIN p.values :
        FilterOperators(p.key, p.values[i]) \ KnownOperators # {}

\* the request that was compiled, as its handler receives it without a token
CompiledRequest ==
    Request(last.verb, <<"main">>, last.table, <<>>, firstValues(last.query),
            [valid |-> TRUE, members |-> {last.data[i] : i \in DOMAIN last.data}])

\* C15: a request that holds an atomic filter with an operator outside eq,
\* neq, gt, gte, lt, lte, like, ilike, in, is (as col=op.value, as
\* col.op=value or as a clause of a group) is answered 400 and no statement
\* is built for it
C15_UnknownOperatorIsRejected ==
    (last # Idle /\ HasUnknownOperator(last.query))
        => /\ last.parsed.err
           /\ last.stmt = NotBuilt
           /\ Handle(CompiledRequest, last.kvs, last.data, Srv).status = 400

(***************************************************************************)
(* The RPC allow-list                                                      *)
(***************************************************************************)
\* C16: the names that HandleRPC invokes are those set up at startup, whatever
\* was requested or registered since; an RPC request for another name is
\* answered 404 and executes nothing
C16_RPCAllowListIsFixed ==
    /\ DOMAIN functions = DOMAIN DefaultFunctions
    /\ (last # Idle /\ last.kind = "RPC"
          /\ extractFunctionName(last.req.path) # <<>>
          /\ extractFunctionName(last.req.path) \notin DOMAIN DefaultFunctions)
        => (last.resp.status = 404 /\ ~last.resp.executed)

(***************************************************************************)
(* The administrator                                                       *)
(***************************************************************************)
\* what the database answers to a statement: the rows of a SELECT, the rows
\* affected and the tables after a command
Answered(sql, args) ==
    IF TokAt(sql, 1) = "SELECT" THEN sqliteQuery(content, sql, args)
    ELSE sqliteExec(content, sql, args)

\* C17: for a principal of role admin, the statement that ApplyPolicies
\* returns selects exactly the rows of the statement it was given, for every
\* table, action and set of loaded policies
C17_AdminIsUnrestricted ==
    (last # Idle /\ last.kind = "secured"
        /\ last.authCtx.Authenticated /\ last.authCtx.Role = <<"admin">>)
    => /\ ~last.secured.err
       /\ Answered(last.secured.sql, last.stmt.args \o last.secured.args)
            = Answered(last.stmt.sql, last.stmt.args)

(***************************************************************************)
(* The schema cache                                                        *)
(***************************************************************************)
\* the age of the entry of the table, at the time now
Age(cch, tableName, now) == now - cch[tableName].info.LastUpdated

\* C18: GetSchema returns an entry only if its age is below the TTL when it is
\* read; a call goes on to introspect only while it holds the write lock and
\* after it found, under that lock, no entry or one whose age has reached the
\* TTL
C18_OnlyFreshEntriesAreReturned ==
    [][\A g \in Goroutines :
          /\ (Returns(g) /\ ~calls'[g].ret.err)
                => /\ calls[g].table \in DOMAIN cache'
                   /\ cache'[calls[g].table].addr = calls'[g].ret.entry
                   /\ Age(cache', calls[g].table, clock) < TTL
          /\ calls'[g].pc = "loading"
                => /\ mutex'.writer = g
                   /\ mutex'.readers = {}
                   /\ calls'[g].table \in DOMAIN cache'
                         => Age(cache', calls'[g].table, clock') >= TTL]_vars

\* a call has returned the entry it read, and another one, which found the
\* entry stale, holds the write lock to introspect again
C18_Witness ==
    \E g, h \in Goroutines :
        /\ calls[h].pc = "returned" /\ ~calls[h].ret.err
        /\ calls[g].pc = "loading"
        /\ calls[g].table \in DOMAIN cache
        /\ cache[calls[g].table].addr = calls[h].ret.entry
        /\ Age(cache, calls[g].table, clock) >= TTL

\* C19: invalidation is linearizable: a call of GetSchema never returns an
\* entry that InvalidateCache or ClearCache removed from the map before the
\* return, so a call that starts after the invalidation has returned gets an
\* entry that was introspected and stored after it
C19_InvalidationIsLinearizable ==
    [][\A g \in Goroutines :
          (Returns(g) /\ ~calls'[g].ret.err)
             => /\ ~heap'[calls'[g].ret.entry].evicted
                /\ heap'[calls'[g].ret.entry].TableName = calls[g].table
                /\ calls[g].table \in DOMAIN cache'
                /\ cache'[calls[g].table].addr = calls'[g].ret.entry]_vars

\* before any entry is stale: a caller still holds the entry of a table that
\* an invalidation removed, and a later call has returned another entry of
\* that table, which the map holds
C19_Witness ==
    /\ clock = 0
    /\ \E g, h \in Goroutines :
          /\ calls[h].pc = "returned" /\ ~calls[h].ret.err
          /\ heap[calls[h].ret.entry].evicted
          /\ calls[g].pc = "returned" /\ ~calls[g].ret.err
          /\ ~heap[calls[g].ret.entry].evicted
          /\ heap[calls[g].ret.entry].TableName = heap[calls[h].ret.entry].TableName

\* what loadSchemaFromDB makes of the table when every pragma runs to its end
Introspected(tableName, lastUpdated) ==
    loadSchemaFromDB(catalog, tableName, lastUpdated, NoFault).schema

\* C20: introspection never partially commits: a call of GetSchema whose
\* loading of columns, foreign keys or indexes failed returns an error and
\* leaves the map as it was, and the map never holds a SchemaInfo that is
\* only partly populated
C20_NoPartialSchema ==
    [][/\ \A g \in Goroutines :
             (Returns(g) /\ calls'[g].ret.err) => cache' = cache
       /\ \A t \in DOMAIN cache' :
             cache'[t].info = Introspected(t, cache'[t].info.LastUpdated)]_vars

(***************************************************************************)
(* The policy engine under concurrent goroutines.  PolicyEngine has no     *)
(* lock: LoadPolicies replaces e.policies by an empty map and fills it row *)
(* by row while ApplyPolicies of other goroutines read it.  A read or a    *)
(* write of the map while another goroutine writes it is a data race: the  *)
(* access goes through, or the runtime ends the process (fatal error:      *)
(* concurrent map read and map write).                                     *)
(***************************************************************************)
\* the rows that the table _policies comes to hold, in the order of their ids
StoredPolicies == <<TenantPolicy, DefaultPolicies[1]>>

\* what may fail in a call of LoadPolicies
PolicyFaults == {"none", "exec", "query", "scan"}

\* the statement that the readers secure, and their principal
AppliedParams == NewParams(<<"users">>)
AppliedQuery == BuildSelect(AppliedParams).sql

\* the runtime has ended the process
Fatal == \E g \in DOMAIN goroutines : goroutines[g].pc = "fatal"

\* a goroutine other than g is between the make of LoadPolicies and its return
WritesTheMap(g) ==
    \E h \in DOMAIN goroutines : h # g /\ goroutines[h].pc = "scanning"

\* e.policies[policy.Table] = append(e.policies[policy.Table], policy)
appendPolicy(loaded, policy) == loadRows(<<policy>>, loaded)

InitPolicies ==
    /\ databases = NewManager
    /\ policyRows = SubSeq(StoredPolicies, 1, 1)
    /\ policies = LoadPolicies(policyRows)
    /\ functions = DefaultFunctions
    /\ content = InitialTables
    /\ last = Idle
    /\ heap = <<>>
    /\ goroutines = [g \in Goroutines |-> Waiting]
    /\ journal = [calls |-> <<>>, commits |-> <<>>]
    /\ NoSchemaCache

\* an operator stores the next policy row in _policies
StorePolicy ==
    /\ ~Fatal
    /\ Len(policyRows) < Len(StoredPolicies)
    /\ policyRows' = Append(policyRows, StoredPolicies[Len(policyRows) + 1])
    /\ UNCHANGED <<databases, policies, functions, content, last, managerVars, cacheVars>>

\* LoadPolicies as far as e.policies = make(...): the CREATE TABLE or the
\* query fails and the call returns, or the map is replaced by an empty one
BeginLoad(g) ==
    /\ ~Fatal
    /\ goroutines[g].pc = "idle"
    /\ \E fault \in PolicyFaults :
          IF fault \in {"exec", "query"}
          THEN /\ goroutines' = [goroutines EXCEPT ![g] =
                                    [pc |-> "loaded", err |-> TRUE, before |-> policies]]
               /\ policies' = policies
          ELSE /\ goroutines' = [goroutines EXCEPT ![g] =
                                    [pc |-> "scanning", rows |-> policyRows, next |-> 1,
                                     fault |-> fault, before |-> policies]]
               /\ policies' = <<>>
    /\ UNCHANGED <<databases, policyRows, functions, content, last, heap, journal, cacheVars>>

\* one turn of the loop of LoadPolicies: the end of the rows, a Scan that
\* fails, or the row appended to the map
ScanPolicy(g) ==
    /\ ~Fatal
    /\ goroutines[g].pc = "scanning"
    /\ \E c \in {goroutines[g]} :
          IF c.next > Len(c.rows)
          THEN /\ goroutines' = [goroutines EXCEPT ![g] =
                                    [pc |-> "loaded", err |-> FALSE, before |-> c.before]]
               /\ policies' = policies
          ELSE IF c.fault = "scan"
          THEN /\ goroutines' = [goroutines EXCEPT ![g] =
                                    [pc |-> "loaded", err |-> TRUE, before |-> c.before]]
               /\ policies' = policies
          ELSE \/ /\ goroutines' = [goroutines EXCEPT ![g].next = c.next + 1]
                  /\ policies' = appendPolicy(policies, c.rows[c.next])
               \/ /\ WritesTheMap(g)
                  /\ goroutines' = [goroutines EXCEPT ![g] = [pc |-> "fatal"]]
                  /\ policies' = policies
    /\ UNCHANGED <<databases, policyRows, functions, content, last, heap, journal, cacheVars>>

\* ApplyPolicies of a request: the map as the call reads it, and the statement
\* it returns
Apply(g) ==
    /\ ~Fatal
    /\ goroutines[g].pc = "idle"
    /\ \/ goroutines' = [goroutines EXCEPT ![g] =
             [pc |-> "applied", saw |-> policies,
              secured |-> ApplyPolicies(policies, AppliedQuery, AppliedParams,
                                        Unauthenticated)]]
       \/ /\ WritesTheMap(g)
          /\ goroutines' = [goroutines EXCEPT ![g] = [pc |-> "fatal"]]
    /\ UNCHANGED <<databases, policyRows, policies, functions, content, last, heap, journal,
                   cacheVars>>

\* the caller has the result of LoadPolicies or of ApplyPolicies
Resume(g) ==
    /\ ~Fatal
    /\ goroutines[g].pc \in {"loaded", "applied"}
    /\ goroutines' = [goroutines EXCEPT ![g] = Waiting]
    /\ UNCHANGED <<databases, policyRows, policies, functions, content, last, heap, journal,
                   cacheVars>>

NextPolicies ==
    \/ StorePolicy
    \/ \E g \in Goroutines : BeginLoad(g)
    \/ \E g \in Goroutines : ScanPolicy(g)
    \/ \E g \in Goroutines : Apply(g)
    \/ \E g \in Goroutines : Resume(g)

SpecPolicies == InitPolicies /\ [][NextPolicies]_vars

\* the complete policy sets: what LoadPolicies makes of the rows that
\* _policies held at some time
CompleteSets == {LoadPolicies(SubSeq(policyRows, 1, k)) : k \in 1..Len(policyRows)}

\* C21: policy reload is atomic for readers: whatever the interleaving of
\* LoadPolicies with ApplyPolicies, a call of ApplyPolicies reads a complete
\* policy set, the one of before a reload or the one of after it, never an
\* empty or partly filled one, and it returns
C21_ReloadIsAtomic ==
    \A g \in Goroutines :
        /\ goroutines[g].pc # "fatal"
        /\ goroutines[g].pc = "applied" => goroutines[g].saw \in CompleteSets

\* the call of LoadPolicies of goroutine g returns in this step
LoadReturns(g) == goroutines[g].pc \in {"idle", "scanning"} /\ goroutines'[g].pc = "loaded"

\* C28: a failed policy load leaves the policy set unchanged: when
\* LoadPolicies returns an error, the set that later calls of ApplyPolicies
\* use is the set in force before the call, never an empty or truncated one
C28_FailedLoadKeepsPolicies ==
    [][\A g \in Goroutines :
          (LoadReturns(g) /\ goroutines'[g].err) => policies' = goroutines'[g].before]_vars

(***************************************************************************)
(* Determinism of the emitted SQL                                          *)
(***************************************************************************)
\* the statement that the handler of the verb builds, when the range over the
\* query parameters yields kvs and the range over the body members yields data
Emit(verb, table, kvs, data) ==
    With(ParseQuery(<<"/", "main", "/">> \o table, kvs), LAMBDA parsed :
        IF parsed.err THEN NotBuilt
        ELSE CASE verb = "GET" -> BuildSelectWithEmbedding(parsed.params)
               [] verb = "POST" -> BuildInsert(parsed.params.Table, data)
               [] verb = "PATCH" -> BuildUpdate(parsed.params.Table, data,
                                                parsed.params.Filters)
               [] verb = "DELETE" -> BuildDelete(parsed.params.Table,
                                                 parsed.params.Filters))

\* C22: SQL emission is deterministic: every run of parse-and-build on the
\* path, query string and body of a request gives the same SQL text and the
\* same parameters in the same order as the run that was made
C22_EmissionIsDeterministic ==
    last # Idle =>
        \A kvs \in Orders(firstValues(last.query)) :
        \A data \in Orders({last.data[i] : i \in DOMAIN last.data}) :
            Emit(last.verb, last.table, kvs, data) = last.stmt

(***************************************************************************)
(* Identifiers                                                             *)
(***************************************************************************)
\* the characters of the model that are neither a letter, a digit nor an
\* underscore; each is a token of its own
NotInIdentifiers == {".", ",", "(", ")", " ", "/", "-", "=", "?", "*", SQ, BT}

\* the identifier allow-list: letters, digits and underscores, no digit first
\* (every word of the model is shorter than 64 bytes)
AllowedIdentifier(name) ==
    /\ Len(name) = 1
    /\ name[1] \notin NotInIdentifiers
    /\ \A n \in DOMAIN Numerals : name[1] # Numerals[n]

\* the identifiers that the text quotes between backticks, from position p on
RECURSIVE QuotedIdentifiers(_, _)
QuotedIdentifiers(sql, p) ==
    With(NextTok(sql, p, BT), LAMBDA open :
        IF open = 0 THEN {}
        ELSE With(NextTok(sql, open + 1, BT), LAMBDA close :
                 IF close = 0 THEN {SubSeq(sql, open + 1, Len(sql))}
                 ELSE {SubSeq(sql, open + 1, close - 1)}
                      \cup QuotedIdentifiers(sql, close + 1)))

\* C23: every table or column identifier that stands in the SQL text of a
\* statement has passed the identifier allow-list; an identifier of the path,
\* the query string or the body that does not match never reaches the text
C23_IdentifiersAreValidated ==
    IsBuilt => \A name \in QuotedIdentifiers(last.stmt.sql, 1) : AllowedIdentifier(name)

(***************************************************************************)
(* Placeholders of the secured SELECT                                      *)
(***************************************************************************)
\* the place of the i-th ? of the text
PlaceholderAt(sql, i) ==
    CHOOSE p \in DOMAIN sql :
        sql[p] = "?" /\ Cardinality({q \in 1..p : sql[q] = "?"}) = i

\* the identifier of the last pair of backticks before the place p
ColumnBefore(sql, p) ==
    With({q \in 1..(p - 1) : sql[q] = BT}, LAMBDA quotes :
        IF Cardinality(quotes) < 2 THEN <<>>
        ELSE With(CHOOSE q \in quotes : \A r \in quotes : r <= q, LAMBDA close :
             With(CHOOSE q \in quotes \ {close} : \A r \in quotes \ {close} : r <= q,
                  LAMBDA open : SubSeq(sql, open + 1, close - 1))))

\* the filters of the request, those of the logical groups included
RequestFilters(params) ==
    Range(params.Filters)
    \cup UNION {Range(params.Conditions[i].Filters) : i \in DOMAIN params.Conditions}

\* the parameter arg is the literal of the condition in which the ? at p stands
BoundTo(sql, p, arg, params) ==
    IF sql[p - 1] = "LIMIT" THEN params.Limit.set /\ arg = Itoa(params.Limit.n)
    ELSE IF sql[p - 1] = "OFFSET" THEN params.Offset.set /\ arg = Itoa(params.Offset.n)
    ELSE \E f \in RequestFilters(params) :
            /\ f.Column = ColumnBefore(sql, p)
            /\ arg \in Range(FilterLiterals(f))

IsExecutedSelect == last.kind = "secured" /\ last.verb = "GET" /\ ~last.secured.err

HasQueryToken(req) ==
    /\ req.authorization = <<>>
    /\ \E kv \in req.query : kv.key = <<"token">>

\* the same request with the token moved to the Authorization header
WithHeaderToken(req) ==
    [req EXCEPT !.authorization =
                    Bearer \o (CHOOSE kv \in req.query : kv.key = <<"token">>).value,
                !.query = {kv \in req.query : kv.key # <<"token">>}]

\* the status codes with which the server in its present state answers req
StatusCodes(req) ==
    {Handle(req, kvs, data, Srv).status :
        kvs \in Orders(req.query), data \in Orders(req.body.members)}

\* C25: a table request that carries its bearer token in the token query
\* parameter is authenticated with it and then parsed as if the parameter were
\* not there: it is answered as the same request with the token in the
\* Authorization header is, and no statement names a column token
C25_QueryTokenIsNoFilter ==
    [][(last'.kind \in {"GET", "POST", "PATCH", "DELETE"} /\ HasQueryToken(last'.req))
       => /\ last'.resp.status \in StatusCodes(WithHeaderToken(last'.req))
          /\ <<"token">> \notin QuotedIdentifiers(last'.resp.sql, 1)]_vars

(***************************************************************************)
(* The WHERE clause of the writes                                          *)
(***************************************************************************)
\* the WHERE clause of a statement: from WHERE up to ORDER BY, LIMIT, OFFSET or
\* the end; empty when the statement has none
WhereOf(sql) ==
    With(Index(sql, "WHERE"), LAMBDA whereIdx :
    With(IndexAny(sql, {"ORDER BY", "LIMIT", "OFFSET"}), LAMBDA t :
        IF whereIdx = 0 THEN <<>>
        ELSE SubSeq(sql, whereIdx, (IF t = 0 THEN Len(sql) + 1 ELSE t) - 1)))

\* C26: the WHERE clause of the UPDATE or DELETE of a PATCH or DELETE request
\* holds the conditions that BuildSelect emits for the same query string, the
\* conditions of the and= and or= groups included
C26_WritesKeepEveryFilter ==
    (IsBuilt /\ last.verb \in {"PATCH", "DELETE"}) =>
        WhereOf(last.stmt.sql) = WhereOf(BuildSelect(last.parsed.params).sql)

(***************************************************************************)
(* engine: CacheStats and the sync.RWMutex of the schema cache.  A call of *)
(* Lock announces itself to the readers and then waits until the readers   *)
(* that hold the mutex have left; from the announcement until Unlock every *)
(* call of RLock blocks.  readers counts the read locks of each goroutine. *)
(***************************************************************************)
RWUnlocked == [pending |-> 0, writer |-> 0, readers |-> [g \in Goroutines |-> 0]]

\* RLock returns: no writer holds the mutex or has announced itself
ReadersMayEnter == mutex.pending = 0 /\ mutex.writer = 0

\* the calls that take the write lock from the start, and their effect on the map
WriterCalls ==
    {[op |-> "InvalidateCache", table |-> t] : t \in SchemaTables}
    \cup {[op |-> "ClearCache", table |-> <<>>]}

Written(cch, call) ==
    CASE call.op = "InvalidateCache" -> [t \in DOMAIN cch \ {call.table} |-> cch[t]]
      [] call.op = "ClearCache" -> <<>>
      [] OTHER -> [t \in DOMAIN cch \cup {call.table} |-> [LastUpdated |-> 0]]

InitStats ==
    /\ databases = NewManager
    /\ policyRows = <<>>
    /\ policies = LoadPolicies(policyRows)
    /\ functions = DefaultFunctions
    /\ content = InitialTables
    /\ last = Idle
    /\ NoGoroutines
    /\ catalog = InitialCatalog
    /\ cache = <<>>
    /\ mutex = RWUnlocked
    /\ clock = 0
    /\ calls = [g \in Goroutines |-> Waiting]

\* the step of goroutine g that leaves it at pc with the mutex m and the map cch
StatsStep(g, call, m, cch) ==
    /\ calls' = [calls EXCEPT ![g] = call]
    /\ mutex' = m
    /\ cache' = cch
    /\ UNCHANGED <<databases, policyRows, policies, functions, content, last, managerVars,
                   catalog, clock>>

\* CacheStats starts: sc.mutex.RLock()
StatsRLock(g) ==
    /\ calls[g].pc = "idle"
    /\ ReadersMayEnter
    /\ StatsStep(g, [pc |-> "CacheStats"], [mutex EXCEPT !.readers[g] = @ + 1], cache)

\* CacheStats calls GetCachedTables: sc.mutex.RLock() again
TablesRLock(g) ==
    /\ calls[g].pc = "CacheStats"
    /\ ReadersMayEnter
    /\ StatsStep(g, [pc |-> "GetCachedTables"], [mutex EXCEPT !.readers[g] = @ + 1], cache)

\* GetCachedTables returns the names of the map: deferred RUnlock
TablesRUnlock(g) ==
    /\ calls[g].pc = "GetCachedTables"
    /\ StatsStep(g, [pc |-> "counted", cached_tables |-> Cardinality(DOMAIN cache),
                     tables |-> DOMAIN cache],
                 [mutex EXCEPT !.readers[g] = @ - 1], cache)

\* CacheStats returns its statistics: deferred RUnlock
StatsRUnlock(g) ==
    /\ calls[g].pc = "counted"
    /\ StatsStep(g, Waiting, [mutex EXCEPT !.readers[g] = @ - 1], cache)

\* GetSchema starts: sc.mutex.RLock()
CheckRLock(g, tableName) ==
    /\ calls[g].pc = "idle"
    /\ ReadersMayEnter
    /\ StatsStep(g, [pc |-> "GetSchema", table |-> tableName],
                 [mutex EXCEPT !.readers[g] = @ + 1], cache)

\* GetSchema looks the table up and leaves the read lock: a hit returns, a
\* miss goes on to the write lock
CheckRUnlock(g) ==
    /\ calls[g].pc = "GetSchema"
    /\ StatsStep(g, IF calls[g].table \in DOMAIN cache THEN Waiting
                    ELSE [pc |-> "miss", op |-> "GetSchema", table |-> calls[g].table],
                 [mutex EXCEPT !.readers[g] = @ - 1], cache)

\* InvalidateCache or ClearCache starts: sc.mutex.Lock() is called and
\* announces the writer to the readers
StartLock(g) ==
    /\ calls[g].pc = "idle"
    /\ mutex.pending = 0
    /\ mutex.writer = 0
    /\ \E call \in WriterCalls :
          StatsStep(g, [pc |-> "Lock", op |-> call.op, table |-> call.table],
                    [mutex EXCEPT !.pending = g], cache)

\* GetSchema goes on after a miss: sc.mutex.Lock() is called and announces
\* the writer to the readers
CallLock(g) ==
    /\ calls[g].pc = "miss"
    /\ mutex.pending = 0
    /\ mutex.writer = 0
    /\ StatsStep(g, [calls[g] EXCEPT !.pc = "Lock"], [mutex EXCEPT !.pending = g], cache)

\* sc.mutex.Lock() returns: the readers have left
AcquireLock(g) ==
    /\ calls[g].pc = "Lock"
    /\ mutex.pending = g
    /\ \A h \in Goroutines : mutex.readers[h] = 0
    /\ StatsStep(g, [calls[g] EXCEPT !.pc = "locked"],
                 [mutex EXCEPT !.pending = 0, !.writer = g], cache)

\* the writer changes the map and returns: deferred Unlock
WriteUnlock(g) ==
    /\ calls[g].pc = "locked"
    /\ StatsStep(g, Waiting, [mutex EXCEPT !.writer = 0], Written(cache, calls[g]))

\* a step that goes on with the call in which goroutine g is
Proceed(g) ==
    \/ TablesRLock(g)
    \/ TablesRUnlock(g)
    \/ StatsRUnlock(g)
    \/ CheckRUnlock(g)
    \/ CallLock(g)
    \/ AcquireLock(g)
    \/ WriteUnlock(g)

NextStats ==
    \/ \E g \in Goroutines : StatsRLock(g)
    \/ \E g \in Goroutines : TablesRLock(g)
    \/ \E g \in Goroutines : TablesRUnlock(g)
    \/ \E g \in Goroutines : StatsRUnlock(g)
    \/ \E g \in Goroutines : \E tableName \in SchemaTables : CheckRLock(g, tableName)
    \/ \E g \in Goroutines : CheckRUnlock(g)
    \/ \E g \in Goroutines : StartLock(g)
    \/ \E g \in Goroutines : CallLock(g)
    \/ \E g \in Goroutines : AcquireLock(g)
    \/ \E g \in Goroutines : WriteUnlock(g)

\* the scheduler runs every goroutine that can go on
SpecStats ==
    InitStats /\ [][NextStats]_vars /\ \A g \in Goroutines : WF_vars(Proceed(g))

\* C27: CacheStats always returns: a call that has taken the read lock and
\* calls GetCachedTables, which takes it again, does not block forever, and no
\* call of Lock waits forever for it, whatever GetSchema, InvalidateCache and
\* ClearCache calls run beside it
C27_CacheStatsReturns ==
    \A g \in Goroutines :
        /\ (calls[g].pc = "CacheStats") ~> (calls[g].pc = "idle")
        /\ (calls[g].pc = "Lock") ~> (calls[g].pc = "locked")

(***************************************************************************)
(* The connections of the manager                                          *)
(***************************************************************************)
\* the Database has a connection that is open
HasOpenConnection(db) ==
    db.Writer = "open" \/ \E i \in DOMAIN db.Readers : db.Readers[i] = "open"

\* the names under which the map of the manager holds the Database at address a
NamesOf(a) == {n \in DOMAIN databases : databases[n] = a}

\* C29: after any sequence of AttachDB and DetachDB calls every connection
\* that was opened is reachable from exactly one handle of the map of the
\* manager or has been closed; AttachDB on a name that is attached leaves no
\* open connection that is unreachable from the map
C29_NoConnectionIsLost ==
    \A a \in DOMAIN heap : HasOpenConnection(heap[a]) => Cardinality(NamesOf(a)) = 1

(***************************************************************************)
(* engine: the error handler.  An *APIError is the address of its object   *)
(* in heap; the predefined errors of the package are the first objects.    *)
(***************************************************************************)
\* the number of WrapError and DatabaseError calls of a run
MaxWraps == 2

ErrorTypes ==
    [PGRST301 |-> 401, PGRST302 |-> 403, PGRST303 |-> 404, PGRST304 |-> 400,
     PGRST500 |-> 500, PGRST501 |-> 500]

\* NewAPIError: the object of a new error
NewAPIError(errorType, message, details) ==
    [Code |-> IF errorType \in DOMAIN ErrorTypes THEN errorType ELSE "PGRST500",
     Message |-> message, Details |-> details, Hint |-> <<>>,
     Status |-> IF errorType \in DOMAIN ErrorTypes THEN ErrorTypes[errorType] ELSE 500]

\* the predefined errors, in the order of their declaration
PredefinedErrors ==
    <<NewAPIError("PGRST301", <<"Authentication failed">>, <<"Invalid or missing JWT token">>),
      NewAPIError("PGRST302", <<"Permission denied">>,
                  <<"You don't have permission to access this resource">>),
      NewAPIError("PGRST303", <<"Resource not found">>,
                  <<"The requested resource does not exist">>),
      NewAPIError("PGRST304", <<"Invalid request">>, <<"The request parameters are invalid">>),
      NewAPIError("PGRST501", <<"Database error">>,
                  <<"An error occurred while executing the database query">>),
      NewAPIError("PGRST500", <<"Internal server error">>, <<"An unexpected error occurred">>)>>

\* the errors that are no *APIError, by their message
PlainErrors == {<<"sql", ":", " ", "no rows in result set">>, <<"unexpected EOF">>}

\* the err argument of a call: nil, a predefined error, or a plain error
ErrArguments ==
    {[kind |-> "nil"]}
    \cup {[kind |-> "APIError", addr |-> a] : a \in DOMAIN PredefinedErrors}
    \cup {[kind |-> "error", message |-> m] : m \in PlainErrors}

Contexts == {<<"loading users">>, <<"loading products">>}

Statements == {<<"SELECT", "*", "FROM", BT, "users", BT>>}

\* one of the substrings is in the message
contains(message, substrings) == \E s \in substrings : Contains(message, s)

\* HandleError on the objects hp: the address of the APIError and the objects
HandleError(hp, err) ==
    IF err.kind = "APIError" THEN [addr |-> err.addr, heap |-> hp]
    ELSE With(err.message, LAMBDA errMsg :
         [addr |-> Len(hp) + 1,
          heap |-> Append(hp,
              IF contains(errMsg, {"authentication", "unauthorized", "invalid token", "jwt"})
              THEN NewAPIError("PGRST301", <<"Authentication failed">>, errMsg)
              ELSE IF contains(errMsg, {"permission", "forbidden", "access denied", "policy"})
              THEN NewAPIError("PGRST302", <<"Permission denied">>, errMsg)
              ELSE IF contains(errMsg, {"invalid", "bad request", "validation", "parse"})
              THEN NewAPIError("PGRST304", <<"Invalid request">>, errMsg)
              ELSE IF contains(errMsg, {"database", "sql", "query", "execution failed"})
              THEN NewAPIError("PGRST501", <<"Database error">>, errMsg)
              ELSE NewAPIError("PGRST500", <<"Internal server error">>, errMsg))])

\* WrapError: the address that it returns (0 for nil) and the objects after it
WrapError(hp, err, context) ==
    IF err.kind = "nil" THEN [addr |-> 0, heap |-> hp]
    ELSE With(HandleError(hp, err), LAMBDA r :
             [addr |-> r.addr,
              heap |-> [r.heap EXCEPT ![r.addr].Details =
                           IF @ # <<>> THEN context \o <<": ">> \o @ ELSE context]])

DatabaseError(hp, query, err) == WrapError(hp, err, <<"Database query failed: ">> \o query)

InitErrors ==
    /\ databases = NewManager
    /\ policyRows = <<>>
    /\ policies = LoadPolicies(policyRows)
    /\ functions = DefaultFunctions
    /\ content = InitialTables
    /\ last = Idle
    /\ heap = PredefinedErrors
    /\ goroutines = <<>>
    /\ journal = [calls |-> <<>>, commits |-> <<>>]
    /\ NoSchemaCache

\* a call has returned the APIError at r.addr for the context
Wrapped(r, err, context) ==
    /\ clock < MaxWraps
    /\ clock' = clock + 1
    /\ heap' = r.heap
    /\ last' = [kind |-> "wrapped", err |-> err, context |-> context, ret |-> r.addr]
    /\ UNCHANGED <<databases, policyRows, policies, functions, content, goroutines, journal,
                   catalog, cache, mutex, calls>>

CallWrapError ==
    \E err \in ErrArguments, context \in Contexts :
        Wrapped(WrapError(heap, err, context), err, context)

CallDatabaseError ==
    \E err \in ErrArguments, query \in Statements :
        Wrapped(DatabaseError(heap, query, err), err, <<"Database query failed: ">> \o query)

NextErrors ==
    \/ CallWrapError
    \/ CallDatabaseError

SpecErrors == InitErrors /\ [][NextErrors]_vars

\* the number of places of the text at which the part stands
Occurrences(text, part) ==
    Cardinality({p \in 1..(Len(text) - Len(part) + 1) :
                    SubSeq(text, p, p + Len(part) - 1) = part})

\* C30: WrapError and DatabaseError leave their input unchanged: after any
\* sequence of calls every predefined error has the Code, Message, Details
\* and Status of its initialisation, and the Details of the returned error
\* hold the given context exactly once
C30_WrapErrorLeavesItsInput ==
    /\ \A a \in DOMAIN PredefinedErrors : heap[a] = PredefinedErrors[a]
    /\ (last # Idle /\ last.ret # 0) =>
           Occurrences(heap[last.ret].Details, last.context) = 1

=============================================================================
